---- MODULE Spec2Model ----
(***************************************************************************)
(* State-machine model of the ix library: the concurrent hash table       *)
(* (src/src/sht.c), the expiring priority queue (src/src/pqueue.c) and     *)
(* the hashed timer wheel (src/src/timer-wheel.c).                         *)
(*                                                                         *)
(* Each component has its own specification (SpecSHT, SpecPQ, SpecTW);    *)
(* the variables of the other components stay at their initial value.     *)
(***************************************************************************)
EXTENDS Integers, Sequences, FiniteSets, TLC

(***************************************************************************)
(* Bounds of the model.                                                    *)
(***************************************************************************)
NThreads == 2
NKeys == 2
MaxNodes == 3
SetupOps == 3
ConcOps == 2
FewSetupOps == 1
ManyConcOps == 3
MaxGcArg == 1
MaxAllocFail == 1
InitSize == 1
MaxItems == 3
PQOps == 5
PQSerialOps == 6
MaxNow == 0
MaxTtl == 1
MaxNum == 1
InitCapacity == 2
TWSizeArg == 2
TWRes == 2
MaxTimers == 2
MaxDelay == 5
MaxTime == 7
TWOps == 4
TWSmokeOps == 3
TWLockOps == 3
CreateOps == 1
MaxSizeArg == 16

(***************************************************************************)
(* Program constants.                                                      *)
(***************************************************************************)
NULL == 0
GcNum == 10
INT32_MAX == 2147483647
U32Bits == 32
TW_DEFAULT_SIZE == 256
TW_DEFAULT_RESOLUTION == 1000
WrapSize == 16
WrapRes == 1000
WrapExtra == 5

Threads == 1..NThreads
Budgets == {<<SetupOps, ConcOps>>, <<FewSetupOps, ManyConcOps>>}
PQBudgets == {<<0, PQOps>>, <<PQSerialOps, 0>>}
Keys == 1..NKeys
Nodes == 1..MaxNodes
Items == 1..MaxItems
Nows == 0..MaxNow
Ttls == 0..MaxTtl
ExpireNows == 0..(MaxNow + MaxTtl)
ExpireNums == 0..MaxNum
\* pq_destroy expires with now = UINT64_MAX: no expiration is later
Forever == MaxNow + MaxTtl
Timers == 1..MaxTimers
Delays == 0..MaxDelay
Times == 0..MaxTime

VARIABLES
    h,       \* struct sht (the current table): scalar fields
    lines,   \* h->lines[i].nodes: the chain of bucket i, head first, as node addresses
    len,     \* h->lines[i].len
    old,     \* h->old: NoOld (NULL) or the snapshot taken by sht_double_size
    node,    \* the heap of struct node: address -> fields (a free address has key NULL)
    pc,      \* position of each thread inside the call it runs
    lv,      \* locals of the call each thread runs, and its return value
    budget,  \* <<calls the main thread makes alone, calls the threads make in all>>
    nsetup,  \* number of calls the main thread made before the threads started
    nconc,   \* number of calls made since the threads started
    nfail,   \* number of allocations of the table that failed so far
    pq,      \* struct pq: size, capacity, the mutex (0, or the thread that locked it),
             \* and whether pq_destroy freed it
    items,   \* q->items[k]: the address of an item, NULL for a slot never written
    item,    \* the heap of struct pq_item: address -> fields
    pqpc,    \* position of each thread inside the call on the queue it runs
    pqlv,    \* arguments of the call on the queue each thread runs, and its result
    pqn,     \* number of calls on the queue made so far
    pqfail,  \* number of allocations of the queue that failed so far
    ub,      \* the run made an access whose behaviour is undefined; the program
             \* may do anything from there, and the model does not follow it
    tw,      \* struct timer_wheel: scalar fields; added: number of timers
             \* timer_wheel_add took, called: number of calls of the expire
             \* callback, freed: timer_wheel_destroy freed the wheel,
             \* lock[s]: the thread that holds the mutex of slot s, or 0
    slots,   \* tw->slots[s]: the circular list of slot s, head first, as timer addresses
    timer,   \* the heap of struct timer_wheel_node: address -> fields
    twpc,    \* position of each thread inside the call on the wheel it runs
    twlv,    \* arguments and locals of the call on the wheel each thread runs
    twn,     \* number of calls on the wheel made so far
    twfail   \* number of allocations of a timer that failed so far

shtVars == <<h, lines, len, old, node, pc, lv, budget, nsetup, nconc, nfail>>
pqVars == <<pq, items, item, pqpc, pqlv, pqn, pqfail, ub>>
twVars == <<tw, slots, timer, twpc, twlv, twn, twfail>>
vars == <<h, lines, len, old, node, pc, lv, budget, nsetup, nconc, nfail,
          pq, items, item, pqpc, pqlv, pqn, pqfail, ub,
          tw, slots, timer, twpc, twlv, twn, twfail>>

(***************************************************************************)
(* Pure helpers.                                                           *)
(***************************************************************************)

\* the user supplied hash function (an identity-like hash on integer keys)
Hash(k) == k

Abs(x) == IF x < 0 THEN -x ELSE x

Range(s) == {s[i] : i \in DOMAIN s}

SetMax(S) == IF S = {} THEN 0 ELSE CHOOSE y \in S : \A z \in S : z <= y

\* #define ISQRRT_NEXT(n, i)  (((n) + (i) / (n)) >> 1)
ISQRRT_NEXT(n, i) == (n + (i \div n)) \div 2

RECURSIVE isqrt_newton(_, _, _)
isqrt_newton(n, n1, number) ==
    IF Abs(n1 - n) > 1
    THEN isqrt_newton(n1, ISQRRT_NEXT(n1, number), number)
    ELSE n1

RECURSIVE isqrt_adjust(_, _)
isqrt_adjust(n1, number) ==
    IF n1 * n1 > number THEN isqrt_adjust(n1 - 1, number) ELSE n1

isqrt(number) == isqrt_adjust(isqrt_newton(1, ISQRRT_NEXT(1, number), number), number)

FreeNode == [key |-> NULL, hash |-> 0, data |-> NULL]
FreeNodes == {n \in Nodes : node[n].key = NULL}

\* the allocator given to sht_create_custom: a free list that hands out the
\* lowest free address, so that a freed address is used again
AllocNode == {n \in FreeNodes : \A m \in FreeNodes : n <= m}

\* h->old == NULL
NoOld == [size |-> 0, lines |-> <<>>, len |-> <<>>, gc_index |-> 0,
          global_lock |-> 0, wrlock |-> -1]

\* line_lookup: data of the first node of the chain with this hash and key, or NULL
RECURSIVE line_lookup(_, _, _)
line_lookup(chain, key, hash) ==
    IF chain = <<>> THEN NULL
    ELSE IF node[Head(chain)].hash = hash /\ node[Head(chain)].key = key
         THEN node[Head(chain)].data
         ELSE line_lookup(Tail(chain), key, hash)

\* index in the chain of the first node with this hash and key, 0 when there is none
RECURSIVE line_find(_, _, _, _)
line_find(chain, key, hash, i) ==
    IF i > Len(chain) THEN 0
    ELSE IF node[chain[i]].hash = hash /\ node[chain[i]].key = key
         THEN i
         ELSE line_find(chain, key, hash, i + 1)

RemoveAt(s, i) == SubSeq(s, 1, i - 1) \o SubSeq(s, i + 1, Len(s))

HeadOrNull(chain) == IF chain = <<>> THEN NULL ELSE Head(chain)

\* the line of a hash in the lines the table was created with
LineOf_initial(hash) == hash % InitSize

LineOf(hash) == hash % h.size
OldLineOf(hash) == hash % old.size

\* the nodes reachable from the lines of the current table, of the old table
\* (while _sht_gc moves a node, the node is already in its new line and not yet
\* unlinked from the old line, which _sht_gc keeps locked)
CurNodes == UNION {Range(lines[i]) : i \in DOMAIN lines}
OldChain(i) ==
    IF old.wrlock = i /\ (\E t \in Threads : pc[t] = "gc_mv")
    THEN Tail(old.lines[i])
    ELSE old.lines[i]
OldNodes == UNION {Range(OldChain(i)) : i \in DOMAIN old.lines}

\* the entries of key k, and the largest value among them (0 when there is none)
KeyNodes(k) == {n \in CurNodes \cup OldNodes : node[n].key = k}
MaxVal(k) == SetMax({node[n].data : n \in KeyNodes(k)})

(***************************************************************************)
(* Initial state: sht_create_custom(InitSize, ...), no call made yet.      *)
(***************************************************************************)

\* locals of a call, and what the call saw when it started:
\*   q       no other call that may change the entries of the key was running
\*           when the call started, and none has started since
\*   n0, v0  number of entries of the key, and their largest value, at the start
\*   gcpass  the call entered the loop of _sht_gc
\*   moved   number of entries the call moved from the old to the current table
\*   oldref  when the call took its reference an old table existed and no
\*           other call was migrating it
\*   dsreq   the call has called sht_double_size
L0 == [kind |-> "none", key |-> NULL, val |-> NULL, max |-> 0, node |-> NULL,
       line |-> 0, bak |-> NULL, i |-> 0, ret |-> 0,
       q |-> FALSE, n0 |-> 0, v0 |-> 0, gcpass |-> FALSE, moved |-> 0,
       oldref |-> FALSE, dsreq |-> FALSE]

\* struct pq_item at address i: allocated or free, its fields idx and expire
\* (a freed item keeps what was written in it), and what the callers know of
\* it: the thread that holds the handle (0: the queue made it in pq_insert) and
\* whether that thread has handed it to the queue; fired counts the calls of
\* the expire callback on this item since it was allocated (at most 2 are kept)
FreeItem == [alloc |-> FALSE, idx |-> 0, expire |-> 0, owner |-> 0, queued |-> FALSE,
             fired |-> 0]

\* arguments and locals of a call on the queue (item is also the local of
\* pq_expire) and its result, and fired: the expirations of the items the call
\* passed to the callback, in the order of the calls
PL0 == [kind |-> "none", item |-> NULL, now |-> 0, ttl |-> 0, num |-> 0, ret |-> 0,
        fired |-> <<>>]

\* pq_create_custom(InitCapacity, ...)
pq_create_custom ==
    /\ pq = [size |-> 0, capacity |-> InitCapacity, lock |-> 0,
             cpt_double_size |-> 0, cpt_double_size_fail |-> 0, freed |-> FALSE]
    /\ items = [k \in 0..(InitCapacity - 1) |-> NULL]
    /\ item = [i \in Items |-> FreeItem]

\* a & b on unsigned integers
RECURSIVE BitAnd(_, _)
BitAnd(a, b) ==
    IF a = 0 \/ b = 0 THEN 0
    ELSE (a % 2) * (b % 2) + 2 * BitAnd(a \div 2, b \div 2)

\* A uint32_t is the set of the positions of its bits that are 1 (bit 0 is the
\* lowest): the arithmetic below is that of 32-bit unsigned integers, it wraps.
Bits32 == 0..(U32Bits - 1)

SetMin(S) == CHOOSE y \in S : \A z \in S : y <= z

\* the uint32_t of a small natural number, and back
ToBits(n) == {i \in 0..(U32Bits - 2) : (n \div (2 ^ i)) % 2 = 1}

RECURSIVE ToInt(_)
ToInt(S) == IF S = {} THEN 0 ELSE LET i == SetMin(S) IN 2 ^ i + ToInt(S \ {i})

\* n - 1
u32_dec(n) ==
    IF n = {} THEN Bits32
    ELSE LET m == SetMin(n) IN (n \ {m}) \cup {i \in Bits32 : i < m}

\* n + 1
u32_inc(n) ==
    IF n = Bits32 THEN {}
    ELSE LET z == SetMin(Bits32 \ n) IN {i \in n : i > z} \cup {z}

\* n >> k
u32_shr(n, k) == {i - k : i \in {j \in n : j >= k}}

\* a | b and a & b
u32_or(a, b) == a \cup b
u32_and(a, b) == a \cap b

is_power_of_2(n) == n # {} /\ u32_and(n, u32_dec(n)) = {}

timer_wheel_next_power_of_2(n) ==
    IF n = {} THEN ToBits(1)
    ELSE IF is_power_of_2(n) THEN n
    ELSE LET n0 == u32_dec(n)
             n1 == u32_or(n0, u32_shr(n0, 1))
             n2 == u32_or(n1, u32_shr(n1, 2))
             n4 == u32_or(n2, u32_shr(n2, 4))
             n8 == u32_or(n4, u32_shr(n4, 8))
             n16 == u32_or(n8, u32_shr(n8, 16))
         IN  u32_inc(n16)

\* the sizes asked of timer_wheel_create_custom: the small ones, those with one
\* or two bits set, those with all the bits below one set, and UINT32_MAX
SizeArgs ==
    {ToBits(n) : n \in 0..MaxSizeArg}
        \cup {{i, j} : i \in Bits32, j \in Bits32}
        \cup {u32_dec({i}) : i \in Bits32}
        \cup {Bits32}

\* the size of the wheel timer_wheel_create_custom makes for a requested size
tw_size(size_arg) ==
    LET size == IF size_arg = {} THEN ToBits(TW_DEFAULT_SIZE) ELSE size_arg
    IN  IF ~is_power_of_2(size) THEN timer_wheel_next_power_of_2(size) ELSE size

\* the resolution of the wheel timer_wheel_create_custom makes
tw_resolution(tick_resolution_ns) ==
    IF tick_resolution_ns = 0 THEN TW_DEFAULT_RESOLUTION ELSE tick_resolution_ns

\* struct timer_wheel_node at address x: allocated or free, its field expiry
\* (ns), and what the caller of timer_wheel_add knows of it: the delay d it
\* asked for and the time c of the wheel (current_tick * tick_resolution, ns)
\* that add read; fired counts the calls of the expire callback on this timer
\* since it was allocated
FreeTimer == [alloc |-> FALSE, expiry |-> 0, c |-> 0, d |-> 0, fired |-> 0]

\* arguments and locals of a call on the wheel, its result, and fired: the
\* timers (as they were) the call passed to the callback, in the order of the
\* calls; from is the value of current_tick timer_wheel_tick started at; i and
\* do_callback are those of timer_wheel_destroy; size_arg is the size asked of
\* timer_wheel_create_custom, size and mask the fields of the wheel it returned
TL0 == [kind |-> "none", delay |-> 0, now |-> 0, timer |-> NULL,
        ticks_delay |-> 0, expiry_tick |-> 0, target_tick |-> 0, tick |-> 0,
        from |-> 0, head |-> <<>>, expired_cpt |-> 0, ret |-> 0, fired |-> <<>>,
        do_callback |-> FALSE, i |-> 0, size_arg |-> {}, size |-> {}, mask |-> {}]

\* the wheel timer_wheel_create_custom(size_arg, tick_resolution_ns, ...)
\* returns, no call made on it yet
tw_created(size_arg, tick_resolution_ns) ==
    LET size == ToInt(tw_size(ToBits(size_arg)))
    IN  /\ tw = [size |-> size, mask |-> size - 1, current_tick |-> 0,
                 tick_resolution |-> tw_resolution(tick_resolution_ns),
                 cpt_expired |-> 0, cpt_add |-> 0,
                 cpt_add_expired |-> 0, cpt_timer_loop |-> 0,
                 added |-> 0, called |-> 0, freed |-> FALSE,
                 lock |-> [s \in 0..(size - 1) |-> 0]]
        /\ slots = [s \in 0..(size - 1) |-> <<>>]
        /\ timer = [x \in Timers |-> FreeTimer]
        /\ twpc = [t \in Threads |-> "idle"]
        /\ twlv = [t \in Threads |-> TL0]
        /\ twn = 0
        /\ twfail = 0

\* timer_wheel_create_custom(TWSizeArg, TWRes, ...)
timer_wheel_create_custom == tw_created(TWSizeArg, TWRes)

sht_create_custom ==
    /\ h = [size |-> InitSize, max_line_depth |-> isqrt(InitSize),
            do_double_size |-> 1, ref |-> 0, global_lock |-> 0,
            cpt_double_size |-> 0, cpt_double_size_fail |-> 0]
    /\ lines = [i \in 0..(InitSize - 1) |-> <<>>]
    /\ len = [i \in 0..(InitSize - 1) |-> 0]
    /\ old = NoOld
    /\ node = [n \in Nodes |-> FreeNode]

InitSHT ==
    /\ sht_create_custom
    /\ timer_wheel_create_custom
    /\ pq_create_custom
    /\ pqpc = [t \in Threads |-> "idle"]
    /\ pqlv = [t \in Threads |-> PL0]
    /\ pqn = 0
    /\ pqfail = 0
    /\ ub = FALSE
    /\ pc = [t \in Threads |-> "idle"]
    /\ lv = [t \in Threads |-> L0]
    /\ budget \in Budgets
    /\ nsetup = 0
    /\ nconc = 0
    /\ nfail = 0

(***************************************************************************)
(* The callers.                                                            *)
(***************************************************************************)

\* thread 1 first makes up to budget[1] calls alone, before the other threads
\* start; then the threads make budget[2] calls in all
InSetup(t) == t = 1 /\ nconc = 0 /\ nsetup < budget[1]

CanCall(t) ==
    /\ pc[t] = "idle"
    /\ \/ InSetup(t)
       \/ /\ nconc < budget[2]
          /\ t # 1 /\ nconc = 0 => pc[1] = "idle"

Called(t) ==
    /\ budget' = budget
    /\ IF InSetup(t)
       THEN nsetup' = nsetup + 1 /\ nconc' = nconc
       ELSE nconc' = nconc + 1 /\ nsetup' = nsetup

\* the kinds of call that may change what a call of this kind finds for its key
Disturbers(kind) ==
    IF kind = "lookup_insert" THEN {"insert", "remove"}
    ELSE {"insert", "remove", "lookup_insert"}

Running(u) == pc[u] \notin {"idle", "ret"}

\* locals of a new call on key k
NewCall(kind, k, v, m) ==
    [L0 EXCEPT !.kind = kind, !.key = k, !.val = v, !.max = m,
               !.q = /\ k # NULL
                     /\ \A u \in Threads : ~(/\ Running(u)
                                             /\ lv[u].key = k
                                             /\ lv[u].kind \in Disturbers(kind)),
               !.n0 = IF k = NULL THEN 0 ELSE Cardinality(KeyNodes(k)),
               !.v0 = IF k = NULL THEN 0 ELSE MaxVal(k)]

\* thread t starts the call: the calls it may disturb, running or just
\* returned, lose q
StartCall(t, call) ==
    lv' = [u \in Threads |->
             IF u = t THEN call
             ELSE IF /\ pc[u] # "idle"
                     /\ call.key # NULL
                     /\ lv[u].key = call.key
                     /\ call.kind \in Disturbers(lv[u].kind)
                  THEN [lv[u] EXCEPT !.q = FALSE]
                  ELSE lv[u]]

\* the values the callers pass: an insert passes a positive value larger than
\* those of the entries of the key, a lookup_insert a negative value of the
\* calling thread
InsertValue(k) == (IF MaxVal(k) < 0 THEN 0 ELSE MaxVal(k)) + 1
LookupInsertValue(t) == -t

\* an allocation may fail (the allocator returns NULL): at most MaxAllocFail
\* times while memory is left, and always when no node is left
MayFail == nfail < MaxAllocFail
NodeAllocFails == MayFail \/ FreeNodes = {}
NodeAllocFailed == IF FreeNodes = {} THEN nfail ELSE nfail + 1

Goto(t, label) == pc' = [pc EXCEPT ![t] = label]

\* the call of thread t returns r: its locals die
Returned(t, r) ==
    [lv EXCEPT ![t] = [@ EXCEPT !.node = NULL, !.line = 0, !.bak = NULL,
                                !.i = 0, !.ret = r]]

\* atomic_decr(h->ref) and return r
Unref(t, r) ==
    /\ h' = [h EXCEPT !.ref = @ - 1]
    /\ lv' = Returned(t, r)
    /\ Goto(t, "ret")

\* the caller has the result and may make its next call
sht_return(t) ==
    /\ pc[t] = "ret"
    /\ lv' = [lv EXCEPT ![t] = L0]
    /\ Goto(t, "idle")
    /\ UNCHANGED <<h, lines, len, old, node, budget, nsetup, nconc, nfail>>
    /\ UNCHANGED <<pqVars, twVars>>

(***************************************************************************)
(* sht_insert                                                              *)
(***************************************************************************)

\* a failing sht_insert that would return after sht_ref, its reference kept
sht_insert_fail_after_ref(t, k, v) ==
    /\ lv' = [lv EXCEPT ![t] = [NewCall("insert", k, v, 0) EXCEPT !.ret = -1]]
    /\ Goto(t, "ret")
    /\ h' = [h EXCEPT !.ref = @ + 1]
    /\ UNCHANGED <<lines, len, old, node>>

\* key == NULL || keylen == 0, or node_create() returns NULL: return -1
sht_insert_fail(t, k, v) ==
    /\ lv' = [lv EXCEPT ![t] = [NewCall("insert", k, v, 0) EXCEPT !.ret = -1]]
    /\ Goto(t, "ret")
    /\ UNCHANGED <<h, lines, len, old, node>>

\* node_create() succeeds
sht_insert_node_create(t, k, v, n) ==
    /\ node' = [node EXCEPT ![n] = [key |-> k, hash |-> Hash(k), data |-> v]]
    /\ StartCall(t, [NewCall("insert", k, v, 0) EXCEPT !.node = n])
    /\ Goto(t, "ins_ref")
    /\ UNCHANGED <<h, lines, len, old>>

sht_insert(t) ==
    /\ CanCall(t)
    /\ Called(t)
    /\ \/ /\ sht_insert_fail(t, NULL, 1)
          /\ nfail' = nfail
       \/ \E k \in Keys :
             \/ /\ NodeAllocFails
                /\ sht_insert_fail(t, k, InsertValue(k))
                /\ nfail' = NodeAllocFailed
             \/ /\ \E n \in AllocNode :
                      sht_insert_node_create(t, k, InsertValue(k), n)
                /\ nfail' = nfail
    /\ UNCHANGED <<pqVars, twVars>>

\* the test that makes an insert call sht_double_size:
\* atomic_read(line->len) > h->max_line_depth
line_too_deep_by_two(l) == len[l] > h.max_line_depth + 1

line_too_deep(l) == len[l] > h.max_line_depth

\* sht_ref(h)
sht_insert_ref(t) ==
    /\ pc[t] = "ins_ref"
    /\ h.global_lock = 0
    /\ h' = [h EXCEPT !.ref = @ + 1]
    /\ lv' = [lv EXCEPT ![t].oldref = (old # NoOld /\ old.global_lock = 0)]
    /\ Goto(t, "ins_chk")
    /\ UNCHANGED <<lines, len, old, node, budget, nsetup, nconc, nfail>>
    /\ UNCHANGED <<pqVars, twVars>>

\* line = &h->lines[node->hash % h->size]; if (line->len > h->max_line_depth) ...
sht_insert_check(t) ==
    /\ pc[t] = "ins_chk"
    /\ LET l == LineOf(node[lv[t].node].hash)
       IN /\ lv' = [lv EXCEPT ![t].line = l, ![t].dsreq = line_too_deep(l)]
          /\ Goto(t, IF line_too_deep(l) THEN "ds_try" ELSE "ins_node")
    /\ UNCHANGED <<h, lines, len, old, node, budget, nsetup, nconc, nfail>>
    /\ UNCHANGED <<pqVars, twVars>>

\* sht_insert_node(h, line, node); atomic_decr(h->ref); return 0
sht_insert_node(t) ==
    /\ pc[t] = "ins_node"
    /\ LET l == lv[t].line
           n == lv[t].node
       IN /\ lines' = [lines EXCEPT ![l] = <<n>> \o @]
          /\ len' = [len EXCEPT ![l] = @ + 1]
    /\ Unref(t, 0)
    /\ UNCHANGED <<old, node, budget, nsetup, nconc, nfail>>
    /\ UNCHANGED <<pqVars, twVars>>

(***************************************************************************)
(* sht_double_size, called from sht_insert and sht_lookup_insert           *)
(***************************************************************************)

\* sht_double_size returns rv; hh is the table it leaves.
\* sht_insert: if (sht_double_size(h) == 0) line = &h->lines[node->hash % h->size]
\* sht_lookup_insert: if (sht_double_size(h) != 0) h->cpt_double_size_fail++
DoubleSizeReturn(t, rv, hh) ==
    IF lv[t].kind = "insert"
    THEN /\ h' = hh
         /\ lv' = [lv EXCEPT ![t].line =
                      IF rv = 0 THEN node[lv[t].node].hash % hh.size ELSE @]
         /\ Goto(t, "ins_node")
    ELSE /\ h' = [hh EXCEPT !.cpt_double_size_fail = IF rv # 0 THEN @ + 1 ELSE @]
         /\ lv' = lv
         /\ Goto(t, "li_old")

\* the one-shot flag read under pthread_spin_trylock and left set
sht_double_size_flag_kept(t) ==
    /\ pc[t] = "ds_try"
    /\ IF h.global_lock = 0 /\ h.do_double_size = 1
       THEN /\ h' = h
            /\ Goto(t, "ds_prep")
            /\ lv' = lv
       ELSE DoubleSizeReturn(t, 0, h)
    /\ UNCHANGED <<lines, len, old, node, budget, nsetup, nconc, nfail>>
    /\ UNCHANGED <<pqVars, twVars>>

\* the one-shot flag, taken under pthread_spin_trylock
sht_double_size_flag(t) ==
    /\ pc[t] = "ds_try"
    /\ IF h.global_lock = 0 /\ h.do_double_size = 1
       THEN /\ h' = [h EXCEPT !.do_double_size = 0]
            /\ Goto(t, "ds_prep")
            /\ lv' = lv
       ELSE DoubleSizeReturn(t, 0, h)
    /\ UNCHANGED <<lines, len, old, node, budget, nsetup, nconc, nfail>>
    /\ UNCHANGED <<pqVars, twVars>>

\* "too many double sizes too fast", or an allocation fails: return -1;
\* otherwise the new lines are ready
sht_double_size_prepare(t) ==
    /\ pc[t] = "ds_prep"
    /\ \/ /\ old # NoOld
          /\ DoubleSizeReturn(t, -1, h)
          /\ nfail' = nfail
       \/ /\ old = NoOld
          /\ MayFail
          /\ DoubleSizeReturn(t, -1, h)
          /\ nfail' = nfail + 1
       \/ /\ old = NoOld
          /\ Goto(t, "ds_lock")
          /\ UNCHANGED <<h, lv, nfail>>
    /\ UNCHANGED <<lines, len, old, node, budget, nsetup, nconc>>
    /\ UNCHANGED <<pqVars, twVars>>

\* pthread_spin_lock(&h->global_lock)
sht_double_size_lock(t) ==
    /\ pc[t] = "ds_lock"
    /\ h.global_lock = 0
    /\ h' = [h EXCEPT !.global_lock = t]
    /\ Goto(t, "ds_wait")
    /\ UNCHANGED <<lines, len, old, node, lv, budget, nsetup, nconc, nfail>>
    /\ UNCHANGED <<pqVars, twVars>>

\* the wait under the global lock, had it not allowed for the reference of
\* the waiting call: while (h->ref > 0);
ref_drained_to_zero == h.ref <= 0

\* the end of the wait under the global lock: while (h->ref > 1);
ref_drained_unchecked == TRUE

ref_drained == h.ref <= 1

\* while (h->ref > 1); then publish the new lines and unlock
sht_double_size_publish(t) ==
    /\ pc[t] = "ds_wait"
    /\ ref_drained
    /\ old' = [size |-> h.size, lines |-> lines, len |-> len, gc_index |-> 0,
               global_lock |-> 0, wrlock |-> -1]
    /\ lines' = [i \in 0..(2 * h.size - 1) |-> <<>>]
    /\ len' = [i \in 0..(2 * h.size - 1) |-> 0]
    /\ DoubleSizeReturn(t, 0,
          [h EXCEPT !.size = 2 * h.size,
                    !.max_line_depth = isqrt(2 * h.size),
                    !.cpt_double_size = @ + 1,
                    !.do_double_size = 1,
                    !.global_lock = 0])
    /\ UNCHANGED <<node, budget, nsetup, nconc, nfail>>
    /\ UNCHANGED <<pqVars, twVars>>

(***************************************************************************)
(* _sht_gc, called from sht_lookup, sht_lookup_insert, sht_remove, sht_gc  *)
(***************************************************************************)

\* where the caller goes on after _sht_gc returns
AfterGc(kind) ==
    CASE kind = "lookup" -> "lk_cur"
      [] kind = "lookup_insert" -> "li_chk"
      [] kind = "remove" -> "rm_cur"
      [] OTHER -> "gc_ret"

\* sht_ref(h); then the entry of _sht_gc: if (h->old == NULL) return 0;
\* if (pthread_spin_trylock(&h->old->global_lock) != 0) return 0;
\* pthread_rwlock_wrlock(&old_line->lock)
sht_ref_gc(t, call) ==
    /\ h.global_lock = 0
    /\ h' = [h EXCEPT !.ref = @ + 1]
    /\ IF old = NoOld \/ old.global_lock # 0
       THEN /\ StartCall(t, call)
            /\ Goto(t, AfterGc(call.kind))
            /\ old' = old
       ELSE /\ StartCall(t, [call EXCEPT !.oldref = TRUE, !.gcpass = TRUE])
            /\ Goto(t, "gc_loop")
            /\ old' = [old EXCEPT !.global_lock = t, !.wrlock = old.gc_index]

\* one turn of the loop of _sht_gc: the first half of a move (sht_insert_node on
\* the new line), or the step to the next old line, or the end of the loop
sht_gc_loop(t) ==
    /\ pc[t] = "gc_loop"
    /\ IF lv[t].i >= lv[t].max
       THEN /\ Goto(t, "gc_end")
            /\ UNCHANGED <<lines, len, old, lv>>
       ELSE IF old.lines[old.wrlock] = <<>>
       THEN IF old.gc_index + 1 >= old.size
            THEN /\ old' = [old EXCEPT !.gc_index = @ + 1]
                 /\ Goto(t, "gc_end")
                 /\ UNCHANGED <<lines, len, lv>>
            ELSE /\ old' = [old EXCEPT !.gc_index = @ + 1, !.wrlock = old.gc_index + 1]
                 /\ lv' = [lv EXCEPT ![t].i = @ + 1]
                 /\ UNCHANGED <<lines, len, pc>>
       ELSE LET n == Head(old.lines[old.wrlock])
                l == LineOf(node[n].hash)
            IN /\ lines' = [lines EXCEPT ![l] = <<n>> \o @]
               /\ len' = [len EXCEPT ![l] = @ + 1]
               /\ Goto(t, "gc_mv")
               /\ UNCHANGED <<old, lv>>
    /\ UNCHANGED <<h, node, budget, nsetup, nconc, nfail>>
    /\ UNCHANGED <<pqVars, twVars>>

\* second half of a move that leaves the node linked in the old line
sht_gc_unlink_kept(t) ==
    /\ pc[t] = "gc_mv"
    /\ old' = [old EXCEPT !.len[old.wrlock] = @ - 1]
    /\ lv' = [lv EXCEPT ![t].i = @ + 1, ![t].moved = @ + 1]
    /\ Goto(t, "gc_loop")
    /\ UNCHANGED <<h, lines, len, node, budget, nsetup, nconc, nfail>>
    /\ UNCHANGED <<pqVars, twVars>>

\* second half of a move without old_line->len--
sht_gc_unlink_uncounted(t) ==
    /\ pc[t] = "gc_mv"
    /\ old' = [old EXCEPT !.lines[old.wrlock] = Tail(@)]
    /\ lv' = [lv EXCEPT ![t].i = @ + 1, ![t].moved = @ + 1]
    /\ Goto(t, "gc_loop")
    /\ UNCHANGED <<h, lines, len, node, budget, nsetup, nconc, nfail>>
    /\ UNCHANGED <<pqVars, twVars>>

\* second half of a move: old_line->nodes = tmp; old_line->len--
sht_gc_unlink(t) ==
    /\ pc[t] = "gc_mv"
    /\ old' = [old EXCEPT !.lines[old.wrlock] = Tail(@),
                          !.len[old.wrlock] = @ - 1]
    /\ lv' = [lv EXCEPT ![t].i = @ + 1, ![t].moved = @ + 1]
    /\ Goto(t, "gc_loop")
    /\ UNCHANGED <<h, lines, len, node, budget, nsetup, nconc, nfail>>
    /\ UNCHANGED <<pqVars, twVars>>

\* the test after the loop with the last old line left out
gc_done_early == old.gc_index + 1 >= old.size

\* if (h->old->gc_index >= h->old->size): every old line has been emptied
gc_done == old.gc_index >= old.size

\* n = i; pthread_rwlock_unlock(&old_line->lock); and, unless the old table is
\* drained, pthread_spin_unlock(&h->old->global_lock); return n
sht_gc_end(t) ==
    /\ pc[t] = "gc_end"
    /\ IF gc_done
       THEN /\ old' = [old EXCEPT !.wrlock = -1]
            /\ Goto(t, "gc_fin")
       ELSE /\ old' = [old EXCEPT !.wrlock = -1, !.global_lock = 0]
            /\ Goto(t, AfterGc(lv[t].kind))
    /\ UNCHANGED <<h, lines, len, node, lv, budget, nsetup, nconc, nfail>>
    /\ UNCHANGED <<pqVars, twVars>>

\* the old table is drained: pthread_spin_lock(&h->global_lock)
sht_gc_finish_lock(t) ==
    /\ pc[t] = "gc_fin"
    /\ h.global_lock = 0
    /\ h' = [h EXCEPT !.global_lock = t]
    /\ Goto(t, "gc_fin_wait")
    /\ UNCHANGED <<lines, len, old, node, lv, budget, nsetup, nconc, nfail>>
    /\ UNCHANGED <<pqVars, twVars>>

\* while (h->ref > 1); h->old = NULL; unlock; sht_destroy(old) frees the nodes
\* that are left in the old lines; return n
sht_gc_finish(t) ==
    /\ pc[t] = "gc_fin_wait"
    /\ ref_drained
    /\ h' = [h EXCEPT !.global_lock = 0]
    /\ old' = NoOld
    /\ node' = [n \in Nodes |-> IF n \in OldNodes THEN FreeNode ELSE node[n]]
    /\ Goto(t, AfterGc(lv[t].kind))
    /\ UNCHANGED <<lines, len, lv, budget, nsetup, nconc, nfail>>
    /\ UNCHANGED <<pqVars, twVars>>

(***************************************************************************)
(* sht_gc                                                                  *)
(***************************************************************************)

sht_gc(t) ==
    /\ CanCall(t)
    /\ Called(t)
    /\ \E m \in 1..MaxGcArg : sht_ref_gc(t, NewCall("gc", NULL, NULL, m))
    /\ UNCHANGED <<lines, len, node, nfail>>
    /\ UNCHANGED <<pqVars, twVars>>

\* rv = _sht_gc(h, max_gc_num); atomic_decr(h->ref); return rv
sht_gc_return(t) ==
    /\ pc[t] = "gc_ret"
    /\ Unref(t, lv[t].i)
    /\ UNCHANGED <<lines, len, old, node, budget, nsetup, nconc, nfail>>
    /\ UNCHANGED <<pqVars, twVars>>

(***************************************************************************)
(* sht_lookup                                                              *)
(***************************************************************************)

\* key == NULL || keylen == 0: return NULL (sht_lookup, sht_lookup_insert)
\* or -1 (sht_remove)
sht_bad_key(t, kind, r) ==
    /\ lv' = [lv EXCEPT ![t] = [NewCall(kind, NULL, NULL, 0) EXCEPT !.ret = r]]
    /\ Goto(t, "ret")
    /\ UNCHANGED <<h, lines, len, old, node>>

sht_lookup(t) ==
    /\ CanCall(t)
    /\ Called(t)
    /\ nfail' = nfail
    /\ \/ sht_bad_key(t, "lookup", NULL)
       \/ /\ \E k \in Keys : sht_ref_gc(t, NewCall("lookup", k, NULL, GcNum))
          /\ UNCHANGED <<lines, len, node>>
    /\ UNCHANGED <<pqVars, twVars>>

\* line_lookup in the current table, under the read lock of the line
sht_lookup_current(t) ==
    /\ pc[t] = "lk_cur"
    /\ LET hash == Hash(lv[t].key)
           ptr == line_lookup(lines[LineOf(hash)], lv[t].key, hash)
       IN IF old # NoOld /\ ptr = NULL
          THEN /\ Goto(t, "lk_old")
               /\ UNCHANGED <<h, lv>>
          ELSE Unref(t, ptr)
    /\ UNCHANGED <<lines, len, old, node, budget, nsetup, nconc, nfail>>
    /\ UNCHANGED <<pqVars, twVars>>

\* line_lookup in the old table, under the read lock of the line
sht_lookup_old(t) ==
    /\ pc[t] = "lk_old"
    /\ LET hash == Hash(lv[t].key)
       IN /\ old.wrlock # OldLineOf(hash)
          /\ Unref(t, line_lookup(old.lines[OldLineOf(hash)], lv[t].key, hash))
    /\ UNCHANGED <<lines, len, old, node, budget, nsetup, nconc, nfail>>
    /\ UNCHANGED <<pqVars, twVars>>

(***************************************************************************)
(* sht_remove                                                              *)
(***************************************************************************)

sht_remove(t) ==
    /\ CanCall(t)
    /\ Called(t)
    /\ nfail' = nfail
    /\ \/ sht_bad_key(t, "remove", -1)
       \/ /\ \E k \in Keys : sht_ref_gc(t, NewCall("remove", k, NULL, GcNum))
          /\ UNCHANGED <<lines, len, node>>
    /\ UNCHANGED <<pqVars, twVars>>

\* the loop over the line of the current table, under its write lock
sht_remove_current(t) ==
    /\ pc[t] = "rm_cur"
    /\ LET hash == Hash(lv[t].key)
           l == LineOf(hash)
           i == line_find(lines[l], lv[t].key, hash, 1)
       IN IF i # 0
          THEN /\ lines' = [lines EXCEPT ![l] = RemoveAt(@, i)]
               /\ len' = [len EXCEPT ![l] = @ - 1]
               /\ node' = [node EXCEPT ![lines[l][i]] = FreeNode]
               /\ Unref(t, 0)
          ELSE IF old # NoOld
          THEN /\ Goto(t, "rm_old")
               /\ UNCHANGED <<h, lines, len, node, lv>>
          ELSE /\ Unref(t, -1)
               /\ UNCHANGED <<lines, len, node>>
    /\ UNCHANGED <<old, budget, nsetup, nconc, nfail>>
    /\ UNCHANGED <<pqVars, twVars>>

\* the loop over the line of the old table, under its write lock
sht_remove_old(t) ==
    /\ pc[t] = "rm_old"
    /\ LET hash == Hash(lv[t].key)
           l == OldLineOf(hash)
           i == line_find(old.lines[l], lv[t].key, hash, 1)
       IN /\ old.wrlock # l
          /\ IF i # 0
             THEN /\ old' = [old EXCEPT !.lines[l] = RemoveAt(@, i),
                                        !.len[l] = @ - 1]
                  /\ node' = [node EXCEPT ![old.lines[l][i]] = FreeNode]
                  /\ Unref(t, 0)
             ELSE /\ Unref(t, -1)
                  /\ UNCHANGED <<old, node>>
    /\ UNCHANGED <<lines, len, budget, nsetup, nconc, nfail>>
    /\ UNCHANGED <<pqVars, twVars>>

(***************************************************************************)
(* sht_lookup_insert                                                       *)
(***************************************************************************)

sht_lookup_insert(t) ==
    /\ CanCall(t)
    /\ Called(t)
    /\ nfail' = nfail
    /\ \/ sht_bad_key(t, "lookup_insert", NULL)
       \/ /\ \E k \in Keys :
                sht_ref_gc(t, NewCall("lookup_insert", k, LookupInsertValue(t), GcNum))
          /\ UNCHANGED <<lines, len, node>>
    /\ UNCHANGED <<pqVars, twVars>>

\* deal with double-size: if (line->len > h->max_line_depth) sht_double_size(h)
sht_lookup_insert_check(t) ==
    /\ pc[t] = "li_chk"
    /\ LET l == LineOf(Hash(lv[t].key))
       IN /\ lv' = [lv EXCEPT ![t].dsreq = line_too_deep(l)]
          /\ Goto(t, IF line_too_deep(l) THEN "ds_try" ELSE "li_old")
    /\ UNCHANGED <<h, lines, len, old, node, budget, nsetup, nconc, nfail>>
    /\ UNCHANGED <<pqVars, twVars>>

\* handle transition old table: line_lookup in the old table under the read lock
sht_lookup_insert_old(t) ==
    /\ pc[t] = "li_old"
    /\ IF old = NoOld
       THEN /\ Goto(t, "li_first")
            /\ UNCHANGED <<h, lv>>
       ELSE LET hash == Hash(lv[t].key)
                ptr == line_lookup(old.lines[OldLineOf(hash)], lv[t].key, hash)
            IN /\ old.wrlock # OldLineOf(hash)
               /\ IF ptr # NULL
                  THEN Unref(t, ptr)
                  ELSE /\ Goto(t, "li_first")
                       /\ UNCHANGED <<h, lv>>
    /\ UNCHANGED <<lines, len, old, node, budget, nsetup, nconc, nfail>>
    /\ UNCHANGED <<pqVars, twVars>>

\* lookup in the current table under the write lock; on a miss remember the
\* head of the line (bak) and unlock
sht_lookup_insert_first(t) ==
    /\ pc[t] = "li_first"
    /\ LET hash == Hash(lv[t].key)
           l == LineOf(hash)
           ptr == line_lookup(lines[l], lv[t].key, hash)
       IN IF ptr # NULL
          THEN Unref(t, ptr)
          ELSE /\ lv' = [lv EXCEPT ![t].line = l, ![t].bak = HeadOrNull(lines[l])]
               /\ Goto(t, "li_alloc")
               /\ h' = h
    /\ UNCHANGED <<lines, len, old, node, budget, nsetup, nconc, nfail>>
    /\ UNCHANGED <<pqVars, twVars>>

\* new_node = node_create(h, key, keylen, value), unlocked
sht_lookup_insert_alloc(t) ==
    /\ pc[t] = "li_alloc"
    /\ \/ /\ NodeAllocFails
          /\ nfail' = NodeAllocFailed
          /\ Unref(t, NULL)
          /\ node' = node
       \/ \E n \in AllocNode :
             /\ node' = [node EXCEPT ![n] = [key |-> lv[t].key,
                                             hash |-> Hash(lv[t].key),
                                             data |-> lv[t].val]]
             /\ lv' = [lv EXCEPT ![t].node = n]
             /\ Goto(t, "li_second")
             /\ UNCHANGED <<h, nfail>>
    /\ UNCHANGED <<lines, len, old, budget, nsetup, nconc>>
    /\ UNCHANGED <<pqVars, twVars>>

\* back under the write lock: if (line->nodes != bak) look up again, and free
\* the candidate on a hit; otherwise line_insert the candidate
sht_lookup_insert_second(t) ==
    /\ pc[t] = "li_second"
    /\ LET hash == Hash(lv[t].key)
           l == lv[t].line
           n == lv[t].node
           ptr == IF HeadOrNull(lines[l]) # lv[t].bak
                  THEN line_lookup(lines[l], lv[t].key, hash)
                  ELSE NULL
       IN IF ptr # NULL
          THEN /\ node' = [node EXCEPT ![n] = FreeNode]
               /\ Unref(t, ptr)
               /\ UNCHANGED <<lines, len>>
          ELSE /\ lines' = [lines EXCEPT ![l] = <<n>> \o @]
               /\ len' = [len EXCEPT ![l] = @ + 1]
               /\ Unref(t, node[n].data)
               /\ node' = node
    /\ UNCHANGED <<old, budget, nsetup, nconc, nfail>>
    /\ UNCHANGED <<pqVars, twVars>>

(***************************************************************************)
(* The hash table under concurrent calls.                                  *)
(***************************************************************************)

NextSHT ==
    \E t \in Threads :
        \/ sht_insert(t)
        \/ sht_insert_ref(t)
        \/ sht_insert_check(t)
        \/ sht_insert_node(t)
        \/ sht_double_size_flag(t)
        \/ sht_double_size_prepare(t)
        \/ sht_double_size_lock(t)
        \/ sht_double_size_publish(t)
        \/ sht_gc(t)
        \/ sht_gc_loop(t)
        \/ sht_gc_unlink(t)
        \/ sht_gc_end(t)
        \/ sht_gc_finish_lock(t)
        \/ sht_gc_finish(t)
        \/ sht_gc_return(t)
        \/ sht_lookup(t)
        \/ sht_lookup_current(t)
        \/ sht_lookup_old(t)
        \/ sht_remove(t)
        \/ sht_remove_current(t)
        \/ sht_remove_old(t)
        \/ sht_lookup_insert(t)
        \/ sht_lookup_insert_check(t)
        \/ sht_lookup_insert_old(t)
        \/ sht_lookup_insert_first(t)
        \/ sht_lookup_insert_alloc(t)
        \/ sht_lookup_insert_second(t)
        \/ sht_return(t)

SpecSHT == InitSHT /\ [][NextSHT]_vars

(***************************************************************************)
(* Properties of the hash table.                                           *)
(***************************************************************************)

\* thread t has the result of a call of this kind
AtReturn(t, kind) == pc[t] = "ret" /\ lv[t].kind = kind

\* C1: a lookup of a key that has one entry, while no call removes the entry or
\* inserts the key, returns the value of the entry, whatever resizes and
\* migration passes run meanwhile
C1_LookupReturnsInserted ==
    \A t \in Threads :
        (AtReturn(t, "lookup") /\ lv[t].q /\ lv[t].n0 = 1) => lv[t].ret = lv[t].v0

\* C2: of the concurrent lookup_insert calls on an absent key exactly one
\* inserts its candidate: when such a call returns a value, the key has exactly
\* one entry and the entry holds the value returned
C2_LookupInsertOnce ==
    \A t \in Threads :
        (AtReturn(t, "lookup_insert") /\ lv[t].q /\ lv[t].n0 = 0 /\ lv[t].ret # NULL)
            => /\ Cardinality(KeyNodes(lv[t].key)) = 1
               /\ \A n \in KeyNodes(lv[t].key) : node[n].data = lv[t].ret

\* C3: when a key was inserted twice, both entries remain, and a lookup returns
\* the value inserted last (the largest), also after a resize and a migration
C3_LookupReturnsLatest ==
    \A t \in Threads :
        (/\ AtReturn(t, "lookup") /\ lv[t].q /\ lv[t].n0 = 2
         /\ \A n \in KeyNodes(lv[t].key) : node[n].data > 0)
            => /\ Cardinality(KeyNodes(lv[t].key)) = 2
               /\ lv[t].ret = lv[t].v0

\* C4: a remove of a key that has an entry, in the current or the old table,
\* returns 0 and removes exactly one entry; it returns -1 only when the key has
\* no entry
C4_RemoveFindsEntry ==
    \A t \in Threads :
        (AtReturn(t, "remove") /\ lv[t].q)
            => IF lv[t].n0 >= 1
               THEN lv[t].ret = 0 /\ Cardinality(KeyNodes(lv[t].key)) = lv[t].n0 - 1
               ELSE lv[t].ret = -1

\* C5: a lookup, insert or remove that finds an old table, which no other call
\* is migrating, runs one migration pass, which moves at most GcNum entries; a
\* call of sht_gc moves at most the number of entries it was given
C5_GcPassOnEveryCall ==
    \A t \in Threads :
        /\ lv[t].kind \in {"lookup", "insert", "remove"}
              => /\ lv[t].moved <= GcNum
                 /\ (pc[t] = "ret" /\ lv[t].oldref) => lv[t].gcpass
        /\ lv[t].kind = "gc" => lv[t].moved <= lv[t].max

\* C6: when sht_double_size fails (an allocation fails, or a migration is in
\* progress) the size of the table and its entries stay as they are and the
\* counter of failed double-sizes grows by one
C6_Step(t) ==
    (pc[t] = "ds_prep" /\ pc'[t] \notin {"ds_prep", "ds_lock"})
        => /\ h'.size = h.size
           /\ lines' = lines
           /\ old' = old
           /\ h'.cpt_double_size_fail = h.cpt_double_size_fail + 1

C6_FailedResizeCounted == [][\A t \in Threads : C6_Step(t)]_vars

\* C7: an insert with a null key, or whose allocation fails, returns a negative
\* value and leaves the table as it was: no entry added, the chain lengths and
\* the reference count unchanged
C7_Step(t) ==
    (pc[t] = "idle" /\ pc'[t] # "idle" /\ lv'[t].kind = "insert")
        => IF lv'[t].key = NULL \/ node' = node
           THEN /\ pc'[t] = "ret"
                /\ lv'[t].ret < 0
                /\ UNCHANGED <<h, lines, len, old, node>>
           ELSE pc'[t] = "ins_ref"

C7_FailedInsertNoChange == [][\A t \in Threads : C7_Step(t)]_vars

\* an insert failed on its allocation while the table held entries
C7_Witness ==
    \E t \in Threads :
        /\ AtReturn(t, "insert")
        /\ lv[t].key # NULL
        /\ lv[t].ret = -1
        /\ CurNodes # {}
        /\ FreeNodes # {}

(***************************************************************************)
(* The expiring priority queue (src/src/pqueue.c).                         *)
(***************************************************************************)

\* pq_item_create: the allocator hands out the lowest free address
FreeItems == {i \in Items : ~item[i].alloc}
AllocItem == {i \in FreeItems : \A j \in FreeItems : i <= j}

pq_item_new(expire, owner) ==
    [alloc |-> TRUE, idx |-> 0, expire |-> expire, owner |-> owner, queued |-> FALSE,
     fired |-> 0]

\* integer division of C, which truncates toward zero
CDiv(a, b) == IF a >= 0 THEN a \div b ELSE -((-a) \div b)

\* swap_items(&q->items[x], &q->items[y])
swap_items(a, x, y) == [a EXCEPT ![x] = a[y], ![y] = a[x]]

\* heapify_up(q, idx) on the array a, with the items it
RECURSIVE heapify_up(_, _, _)
heapify_up(a, it, idx) ==
    IF idx = 0 THEN a
    ELSE LET parent_idx == CDiv(idx - 1, 2)
         IN IF it[a[idx]].expire < it[a[parent_idx]].expire
            THEN heapify_up(swap_items(a, idx, parent_idx), it, parent_idx)
            ELSE a

\* heapify_down(q, idx) on the array a of a queue of this size
RECURSIVE heapify_down(_, _, _, _)
heapify_down(a, it, size, idx) ==
    LET left_child == 2 * idx + 1
        right_child == 2 * idx + 2
        s1 == IF left_child < size /\ it[a[left_child]].expire < it[a[idx]].expire
              THEN left_child ELSE idx
        smallest == IF right_child < size /\ it[a[right_child]].expire < it[a[s1]].expire
                    THEN right_child ELSE s1
    IN IF smallest # idx
       THEN heapify_down(swap_items(a, idx, smallest), it, size, smallest)
       ELSE a

\* the handles in the heap, and the places of handle i in it
Heap == {items[k] : k \in 0..(pq.size - 1)}
InHeap(i) == \E k \in 0..(pq.size - 1) : items[k] = i

\* the heap holds the address of an item that was freed
Dangling == \E k \in 0..(pq.size - 1) : ~item[items[k]].alloc

InitPQ ==
    /\ sht_create_custom
    /\ pc = [t \in Threads |-> "idle"]
    /\ lv = [t \in Threads |-> L0]
    /\ budget \in PQBudgets
    /\ nsetup = 0
    /\ nconc = 0
    /\ nfail = 0
    /\ timer_wheel_create_custom
    /\ pq_create_custom
    /\ pqpc = [t \in Threads |-> "idle"]
    /\ pqlv = [t \in Threads |-> PL0]
    /\ pqn = 0
    /\ pqfail = 0
    /\ ub = FALSE


\* the calls on a queue that was not destroyed: thread 1 first makes
\* budget[1] calls alone, then the threads make budget[2] calls in all
PQCanCall(t) ==
    /\ pqpc[t] = "idle"
    /\ pqn < budget[1] + budget[2]
    /\ pqn < budget[1] => t = 1
    /\ ~pq.freed
    /\ ~ub

PQGoto(t, label) == pqpc' = [pqpc EXCEPT ![t] = label]

PQCall(t, call, label) ==
    /\ pqlv' = [pqlv EXCEPT ![t] = call]
    /\ PQGoto(t, label)
    /\ pqn' = pqn + 1

\* the call of thread t returns r: its arguments die
PQReturn(t, r) ==
    /\ pqlv' = [pqlv EXCEPT ![t] = [@ EXCEPT !.now = 0, !.ttl = 0, !.num = 0,
                                             !.ret = r]]
    /\ PQGoto(t, "ret")

\* thread t is between pthread_mutex_lock and pthread_mutex_unlock
InCS(t) == pqpc[t] \in {"insert_cs", "remove_cs", "expire_cs", "expire_rm"}

\* another thread is between lock and unlock too: what t does to the queue
\* there is a data race
Racing(t) == \E u \in Threads \ {t} : InCS(u)

\* the step reads an item that was freed, or races with another thread: the
\* behaviour is undefined (the other outcome, reading what the memory holds at
\* this moment, is the step itself)
Undefined(t) ==
    /\ Dangling \/ Racing(t)
    /\ ub' = TRUE
    /\ UNCHANGED <<pq, items, item, pqpc, pqlv, pqn, pqfail>>

\* the caller has the result and may make its next call
pq_return(t) ==
    /\ pqpc[t] = "ret"
    /\ ~pq.freed
    /\ ~ub
    /\ pqlv' = [pqlv EXCEPT ![t] = PL0]
    /\ PQGoto(t, "idle")
    /\ UNCHANGED <<pq, items, item, pqn, pqfail, ub>>
    /\ UNCHANGED <<shtVars, twVars>>

\* pq_item_create(q, expire, value) by a thread that keeps the handle
pq_item_create(t) ==
    /\ PQCanCall(t)
    /\ \E now \in Nows, ttl \in Ttls :
          \/ /\ pqfail < MaxAllocFail \/ FreeItems = {}
             /\ pqfail' = IF FreeItems = {} THEN pqfail ELSE pqfail + 1
             /\ PQCall(t, [PL0 EXCEPT !.kind = "item_create"], "ret")
             /\ item' = item
          \/ /\ \E i \in AllocItem :
                   /\ item' = [item EXCEPT ![i] = pq_item_new(now + ttl, t)]
                   /\ PQCall(t, [PL0 EXCEPT !.kind = "item_create", !.item = i,
                                            !.ret = i], "ret")
             /\ pqfail' = pqfail
    /\ UNCHANGED <<pq, items, ub>>
    /\ UNCHANGED <<shtVars, twVars>>

\* pq_item_destroy(q, item) of a handle the thread holds
pq_item_destroy(t) ==
    /\ PQCanCall(t)
    /\ \E i \in Items :
          /\ item[i].alloc /\ item[i].owner = t /\ ~item[i].queued
          /\ item' = [item EXCEPT ![i].alloc = FALSE, ![i].owner = 0]
          /\ PQCall(t, [PL0 EXCEPT !.kind = "item_destroy", !.item = i], "ret")
    /\ UNCHANGED <<pq, items, pqfail, ub>>
    /\ UNCHANGED <<shtVars, twVars>>

\* pq_insert(q, now, value, ttl): pq_item_create, then pq_item_insert
pq_insert(t) ==
    /\ PQCanCall(t)
    /\ \E now \in Nows, ttl \in Ttls :
          \/ /\ pqfail < MaxAllocFail \/ FreeItems = {}
             /\ pqfail' = IF FreeItems = {} THEN pqfail ELSE pqfail + 1
             /\ PQCall(t, [PL0 EXCEPT !.kind = "insert", !.ret = -1], "ret")
             /\ item' = item
          \/ /\ \E i \in AllocItem :
                   /\ item' = [item EXCEPT ![i] = pq_item_new(now + ttl, 0)]
                   /\ PQCall(t, [PL0 EXCEPT !.kind = "insert", !.item = i,
                                            !.now = now, !.ttl = ttl], "insert_lock")
             /\ pqfail' = pqfail
    /\ UNCHANGED <<pq, items, ub>>
    /\ UNCHANGED <<shtVars, twVars>>

\* pq_item_insert(q, item) of a handle the thread holds and has not queued
pq_item_insert_call(t) ==
    /\ PQCanCall(t)
    /\ \E i \in Items :
          /\ item[i].alloc /\ item[i].owner = t /\ ~item[i].queued
          /\ PQCall(t, [PL0 EXCEPT !.kind = "item_insert", !.item = i], "insert_lock")
    /\ UNCHANGED <<pq, items, item, pqfail, ub>>
    /\ UNCHANGED <<shtVars, twVars>>

\* pthread_mutex_lock(&q->lock) of pq_item_insert, pq_item_remove and pq_expire
pq_lock(t) ==
    /\ pqpc[t] \in {"insert_lock", "remove_lock", "expire_lock"}
    /\ pq.lock = 0
    /\ ~ub
    /\ pq' = [pq EXCEPT !.lock = t]
    /\ PQGoto(t, CASE pqpc[t] = "insert_lock" -> "insert_cs"
                   [] pqpc[t] = "remove_lock" -> "remove_cs"
                   [] pqpc[t] = "expire_lock" -> "expire_cs")
    /\ UNCHANGED <<items, item, pqlv, pqn, pqfail, ub>>
    /\ UNCHANGED <<shtVars, twVars>>

\* pq_double_size: realloc to twice the capacity
pq_double_size(a, capacity) ==
    [k \in 0..(2 * capacity - 1) |-> IF k < capacity THEN a[k] ELSE NULL]

\* a pq_double_size that would record the new capacity although realloc failed
pq_double_size_fail_grown(q) ==
    [q EXCEPT !.cpt_double_size = @ + 1, !.cpt_double_size_fail = @ + 1,
              !.capacity = 2 * @]

\* pq_double_size when realloc fails: only the counters move
pq_double_size_fail(q) ==
    [q EXCEPT !.cpt_double_size = @ + 1, !.cpt_double_size_fail = @ + 1]

\* pq_item_insert under the mutex.  When the array is full and realloc fails,
\* the function returns -1 without unlocking the mutex
pq_item_insert(t) ==
    /\ pqpc[t] = "insert_cs"
    /\ ~ub
    /\ LET i == pqlv[t].item
           full == pq.size = pq.capacity
           grown == IF full THEN pq_double_size(items, pq.capacity) ELSE items
           it == [item EXCEPT ![i].idx = pq.size, ![i].queued = TRUE]
       IN \/ Undefined(t)
          \/ /\ full
             /\ pqfail < MaxAllocFail
             /\ pqfail' = pqfail + 1
             /\ pq' = pq_double_size_fail(pq)
             /\ PQReturn(t, -1)
             /\ UNCHANGED <<items, item, pqn, ub>>
          \/ /\ pq' = [pq EXCEPT !.size = @ + 1,
                                 !.capacity = IF full THEN 2 * @ ELSE @,
                                 !.cpt_double_size = IF full THEN @ + 1 ELSE @,
                                 !.lock = 0]
             /\ item' = it
             /\ items' = heapify_up([grown EXCEPT ![pq.size] = i], it, pq.size)
             /\ PQReturn(t, 0)
             /\ UNCHANGED <<pqn, pqfail, ub>>
    /\ UNCHANGED <<shtVars, twVars>>

\* pq_item_remove(q, item) of a handle the thread holds and has queued
pq_item_remove_call(t) ==
    /\ PQCanCall(t)
    /\ \E i \in Items :
          /\ item[i].alloc /\ item[i].owner = t /\ item[i].queued
          /\ PQCall(t, [PL0 EXCEPT !.kind = "item_remove", !.item = i], "remove_lock")
    /\ UNCHANGED <<pq, items, item, pqfail, ub>>
    /\ UNCHANGED <<shtVars, twVars>>

\* pq_item_resched(q, now, item, new_ttl): pq_item_remove, item->expire = now +
\* new_ttl, pq_item_insert
pq_item_resched(t) ==
    /\ PQCanCall(t)
    /\ \E i \in Items, now \in Nows, ttl \in Ttls :
          /\ item[i].alloc /\ item[i].owner = t /\ item[i].queued
          /\ PQCall(t, [PL0 EXCEPT !.kind = "item_resched", !.item = i,
                                   !.now = now, !.ttl = ttl], "remove_lock")
    /\ UNCHANGED <<pq, items, item, pqfail, ub>>
    /\ UNCHANGED <<shtVars, twVars>>

\* the array and the size pq_item_remove leaves, for an item whose idx is idx
pq_remove_at(a, it, size, idx) ==
    IF idx = size - 1
    THEN a
    ELSE LET b == [a EXCEPT ![idx] = a[size - 1]]
             parent_idx == CDiv(idx - 1, 2)
         IN IF idx > 0 /\ it[b[idx]].expire < it[b[parent_idx]].expire
            THEN heapify_up(b, it, idx)
            ELSE heapify_down(b, it, size - 1, idx)

\* pq_item_remove under the mutex.  With an empty queue and idx # size - 1 it
\* reads q->items[-1]: the behaviour is undefined
pq_item_remove(t) ==
    /\ pqpc[t] = "remove_cs"
    /\ ~ub
    /\ LET i == pqlv[t].item
           idx == item[i].idx
       IN \/ Undefined(t)
          \/ /\ pq.size = 0
             /\ ub' = TRUE
             /\ UNCHANGED <<pq, items, item, pqpc, pqlv, pqn, pqfail>>
          \/ /\ pq.size > 0
             /\ items' = pq_remove_at(items, item, pq.size, idx)
             /\ pq' = [pq EXCEPT !.size = @ - 1, !.lock = 0]
             /\ item' = [item EXCEPT ![i].queued = FALSE]
             /\ IF pqlv[t].kind = "item_resched"
                THEN PQGoto(t, "resched_set") /\ pqlv' = pqlv
                ELSE PQReturn(t, 0)
             /\ UNCHANGED <<pqn, pqfail, ub>>
    /\ UNCHANGED <<shtVars, twVars>>

\* pq_item_resched, between its remove and its insert: item->expire = now + new_ttl
pq_item_resched_set(t) ==
    /\ pqpc[t] = "resched_set"
    /\ ~ub
    /\ item' = [item EXCEPT ![pqlv[t].item].expire = pqlv[t].now + pqlv[t].ttl]
    /\ PQGoto(t, "insert_lock")
    /\ UNCHANGED <<pq, items, pqlv, pqn, pqfail, ub>>
    /\ UNCHANGED <<shtVars, twVars>>

\* pq_expire(q, now, num): num <= 0 returns 0 at once
pq_expire_call(t) ==
    /\ PQCanCall(t)
    /\ \E now \in ExpireNows, num \in ExpireNums :
          IF num <= 0
          THEN PQCall(t, [PL0 EXCEPT !.kind = "expire"], "ret")
          ELSE PQCall(t, [PL0 EXCEPT !.kind = "expire", !.now = now, !.num = num],
                      "expire_lock")
    /\ UNCHANGED <<pq, items, item, pqfail, ub>>
    /\ UNCHANGED <<shtVars, twVars>>

\* pq_expire_all(q, now) is pq_expire(q, now, INT32_MAX)
pq_expire_all(t) ==
    /\ PQCanCall(t)
    /\ \E now \in ExpireNows :
          PQCall(t, [PL0 EXCEPT !.kind = "expire_all", !.now = now, !.num = INT32_MAX],
                 "expire_lock")
    /\ UNCHANGED <<pq, items, item, pqfail, ub>>
    /\ UNCHANGED <<shtVars, twVars>>

\* pq_destroy(q), once the threads have made their calls: pq_expire_all(q,
\* UINT64_MAX), then the array and the queue are freed
pq_destroy(t) ==
    /\ t = 1
    /\ \A u \in Threads : pqpc[u] = "idle"
    /\ pqn = budget[1] + budget[2]
    /\ ~pq.freed
    /\ ~ub
    /\ pqlv' = [pqlv EXCEPT ![t] = [PL0 EXCEPT !.kind = "destroy", !.now = Forever,
                                               !.num = INT32_MAX]]
    /\ PQGoto(t, "expire_lock")
    /\ UNCHANGED <<pq, items, item, pqn, pqfail, ub>>
    /\ UNCHANGED <<shtVars, twVars>>

\* pq_expire returns cpt, which it never increments; in pq_destroy the queue
\* is freed next
ExpireReturn(t) == PQReturn(t, 0)

AfterExpire(t, q) == [q EXCEPT !.freed = (pqlv[t].kind = "destroy")]

\* the head of the loop of pq_expire.  cpt stays 0 < num, so the loop ends on
\* an empty queue (the mutex is unlocked, and unlocked again after the loop)
\* or on a first item that is not due; a first item that is due is passed to
\* the callback
pq_expire(t) ==
    /\ pqpc[t] = "expire_cs"
    /\ ~ub
    /\ \/ Undefined(t)
       \/ /\ pq.size = 0
          /\ pq' = [pq EXCEPT !.lock = 0]
          /\ PQGoto(t, "expire_unlock")
          /\ UNCHANGED <<items, item, pqlv, pqn, pqfail, ub>>
       \/ /\ pq.size > 0
          /\ item[items[0]].expire > pqlv[t].now
          /\ pq' = AfterExpire(t, [pq EXCEPT !.lock = 0])
          /\ ExpireReturn(t)
          /\ UNCHANGED <<items, item, pqn, pqfail, ub>>
       \/ /\ pq.size > 0
          /\ item[items[0]].expire <= pqlv[t].now
          /\ item' = [item EXCEPT ![items[0]].fired = IF @ < 2 THEN @ + 1 ELSE @]
          /\ pqlv' = [pqlv EXCEPT ![t].item = items[0],
                                  ![t].fired = Append(@, item[items[0]].expire)]
          /\ PQGoto(t, "expire_rm")
          /\ UNCHANGED <<pq, items, pqn, pqfail, ub>>
    /\ UNCHANGED <<shtVars, twVars>>

\* the rest of the loop body of pq_expire: the last item goes to the root,
\* the item is destroyed, heapify_down.  With an empty queue (emptied in a
\* race) it reads q->items[-1]: the behaviour is undefined
pq_expire_remove(t) ==
    /\ pqpc[t] = "expire_rm"
    /\ ~ub
    /\ LET i == pqlv[t].item
           freed == [item EXCEPT ![i].alloc = FALSE, ![i].owner = 0, ![i].queued = FALSE]
           b == [items EXCEPT ![0] = items[pq.size - 1]]
       IN \/ Undefined(t)
          \/ /\ pq.size = 0
             /\ ub' = TRUE
             /\ UNCHANGED <<pq, items, item, pqpc, pqlv, pqn, pqfail>>
          \/ /\ pq.size > 0
             /\ item' = freed
             /\ items' = heapify_down(b, freed, pq.size - 1, 0)
             /\ pq' = [pq EXCEPT !.size = @ - 1]
             /\ pqlv' = [pqlv EXCEPT ![t].item = NULL]
             /\ PQGoto(t, "expire_cs")
             /\ UNCHANGED <<pqn, pqfail, ub>>
    /\ UNCHANGED <<shtVars, twVars>>

\* the pthread_mutex_unlock after the loop, when the loop unlocked the mutex
\* already: it releases the mutex, whoever locked it since, or it fails and
\* leaves the mutex as it is
pq_expire_unlock(t) ==
    /\ pqpc[t] = "expire_unlock"
    /\ ~ub
    /\ \/ pq' = AfterExpire(t, [pq EXCEPT !.lock = 0])
       \/ pq' = AfterExpire(t, pq)
    /\ ExpireReturn(t)
    /\ UNCHANGED <<items, item, pqn, pqfail, ub>>
    /\ UNCHANGED <<shtVars, twVars>>

NextPQ ==
    \E t \in Threads :
        \/ pq_item_create(t)
        \/ pq_item_destroy(t)
        \/ pq_insert(t)
        \/ pq_item_insert_call(t)
        \/ pq_lock(t)
        \/ pq_item_insert(t)
        \/ pq_item_remove_call(t)
        \/ pq_item_remove(t)
        \/ pq_item_resched(t)
        \/ pq_item_resched_set(t)
        \/ pq_expire_call(t)
        \/ pq_expire_all(t)
        \/ pq_expire(t)
        \/ pq_expire_remove(t)
        \/ pq_expire_unlock(t)
        \/ pq_return(t)

SpecPQ == InitPQ /\ [][NextPQ]_vars

\* the threads of the smoke test call pq_insert and pq_expire_all, and main
\* calls pq_destroy when they are done
NextSmoke ==
    \E t \in Threads :
        \/ pq_insert(t)
        \/ pq_expire_all(t)
        \/ pq_lock(t)
        \/ pq_item_insert(t)
        \/ pq_expire(t)
        \/ pq_expire_remove(t)
        \/ pq_expire_unlock(t)
        \/ pq_return(t)
        \/ pq_destroy(t)

SpecSmoke == InitPQ /\ [][NextSmoke]_vars

(***************************************************************************)
(* Properties of the priority queue.                                       *)
(***************************************************************************)

\* no call on the queue is under way
PQQuiet == \A t \in Threads : pqpc[t] \in {"idle", "ret"}

\* C8: whenever the calls made so far have returned, the array is a binary
\* min-heap: the item at index (i-1)/2 expires no later than the item at i
C8_HeapOrder ==
    PQQuiet =>
        \A k \in 1..(pq.size - 1) :
            item[items[CDiv(k - 1, 2)]].expire <= item[items[k]].expire

\* C9: the handle stored at index i of the heap has idx = i
C9_IdxIsIndex == \A k \in 0..(pq.size - 1) : item[items[k]].idx = k

\* C10: pq_item_remove of a handle that is in the heap takes exactly this handle
\* out: the handle is no longer in the heap, the others still are, and the size
\* is one less
C10_Step(t) ==
    (/\ pqpc[t] = "remove_cs" /\ pqpc'[t] = "ret"
     /\ InHeap(pqlv[t].item))
        => /\ \A k \in 0..(pq'.size - 1) : items'[k] # pqlv[t].item
           /\ \A j \in Heap \ {pqlv[t].item} :
                 \E k \in 0..(pq'.size - 1) : items'[k] = j
           /\ pq'.size = pq.size - 1

C10_RemoveDetachesHandle == [][\A t \in Threads : C10_Step(t)]_vars

NonDecreasing(s) == \A k \in 1..(Len(s) - 1) : s[k] <= s[k + 1]

\* thread t runs pq_expire or pq_expire_all and leaves the loop in this step
LeavesLoop(t) == pqpc[t] = "expire_cs" /\ pqpc'[t] \in {"ret", "expire_unlock"}

\* the items of the heap whose expiration is not after now
Due(now) == {k \in 0..(pq.size - 1) : item[items[k]].expire <= now}

\* C11: pq_expire(now, num) passes to the callback and removes exactly
\* min(num, number of due items) items, in the order of their expirations: it
\* never passes more than num items, it stops before num items only when no
\* due item is left, and with num <= 0 it changes nothing
C11_Step(t) ==
    /\ (pqpc[t] = "idle" /\ pqpc'[t] = "ret" /\ pqlv'[t].kind = "expire")
          => /\ UNCHANGED <<pq, items, item>>
             /\ pqlv'[t].fired = <<>>
    /\ (pqlv[t].kind = "expire" /\ pqpc[t] = "expire_cs" /\ pqpc'[t] = "expire_rm")
          => /\ Len(pqlv'[t].fired) <= pqlv[t].num
             /\ NonDecreasing(pqlv'[t].fired)
    /\ (pqlv[t].kind = "expire" /\ LeavesLoop(t))
          => Len(pqlv[t].fired) = pqlv[t].num \/ Due(pqlv[t].now) = {}

C11_ExpireFiresMinNumDue == [][\A t \in Threads : C11_Step(t)]_vars

\* C12: pq_expire and pq_expire_all return the number of items they passed to
\* the callback and removed
C12_ExpireReturnsCount ==
    \A t \in Threads :
        (pqpc[t] = "ret" /\ pqlv[t].kind \in {"expire", "expire_all"})
            => pqlv[t].ret = Len(pqlv[t].fired)

\* C13: when pq_expire_all(now) leaves its loop, every item it passed to the
\* callback was due, and no item that is due is left in the heap
C13_Step(t) ==
    (pqlv[t].kind = "expire_all" /\ LeavesLoop(t))
        => /\ \A k \in 1..Len(pqlv[t].fired) : pqlv[t].fired[k] <= pqlv[t].now
           /\ \A k \in 0..(pq.size - 1) : item[items[k]].expire > pqlv[t].now

C13_ExpireAllFiresDueOnly == [][\A t \in Threads : C13_Step(t)]_vars

\* thread u returned 0 from pq_item_resched of the handle hd and made no call since
Rescheduled(u, hd) ==
    /\ pqpc[u] = "ret"
    /\ pqlv[u].kind = "item_resched"
    /\ pqlv[u].ret = 0
    /\ pqlv[u].item = hd

\* C14: a handle that was rescheduled is not passed to the callback by an
\* expire whose now is before the new expiration, and a pq_expire_all whose
\* now is not before it passes it to the callback exactly once
C14_Step(t, u, hd) ==
    (Rescheduled(u, hd) /\ t # u /\ pqlv[t].kind \in {"expire", "expire_all"})
        => /\ (pqpc[t] = "expire_cs" /\ pqpc'[t] = "expire_rm" /\ items[0] = hd)
                 => item[hd].expire <= pqlv[t].now
           /\ (pqlv[t].kind = "expire_all" /\ LeavesLoop(t)
               /\ item[hd].expire <= pqlv[t].now)
                 => item[hd].fired = 1

C14_ReschedFiresOnce ==
    [][\A t \in Threads, u \in Threads, hd \in Items : C14_Step(t, u, hd)]_vars

\* thread u is inside pq_item_resched, after its pq_item_remove and before its
\* pq_item_insert took the mutex
MidResched(u) ==
    pqlv[u].kind = "item_resched" /\ pqpc[u] \in {"resched_set", "insert_lock"}

\* C15: while a thread is inside pq_item_resched with the handle taken out and
\* not yet put back, no other thread takes the mutex of the queue
C15_Step(u, t) ==
    (MidResched(u) /\ t # u)
        => ~(pqpc[t] \in {"insert_lock", "remove_lock", "expire_lock"} /\ InCS(t)')

C15_ReschedAtomic == [][\A u \in Threads, t \in Threads : C15_Step(u, t)]_vars

\* C16: a pq_insert or pq_item_insert that returns an error from under the
\* mutex found size = capacity, and leaves the array, the size and the capacity
\* as they were
C16_Step(t) ==
    (pqpc[t] = "insert_cs" /\ pqpc'[t] = "ret" /\ pqlv'[t].ret # 0)
        => /\ pq.size = pq.capacity
           /\ items' = items
           /\ pq'.size = pq.size
           /\ pq'.capacity = pq.capacity

C16_FailedInsertNoChange == [][\A t \in Threads : C16_Step(t)]_vars

C16_Witness ==
    \E t \in Threads :
        /\ pqpc[t] = "ret"
        /\ pqlv[t].kind \in {"insert", "item_insert"}
        /\ pqlv[t].ret = -1
        /\ pq.cpt_double_size_fail = 1
        /\ pq.size = pq.capacity
        /\ pq.size = InitCapacity

\* C17: in a run of pq_insert, pq_expire_all and a final pq_destroy, no item is
\* passed to the callback twice, and once the queue is destroyed no item that
\* was inserted is left without its callback
C17_CallbackOnce ==
    /\ \A i \in Items : item[i].fired <= 1
    /\ pq.freed => \A i \in Items : ~(item[i].alloc /\ item[i].queued)

\* C18: at most one thread is between pthread_mutex_lock and
\* pthread_mutex_unlock
C18_MutualExclusion == Cardinality({t \in Threads : InCS(t)}) <= 1

(***************************************************************************)
(* The hashed timer wheel (src/src/timer-wheel.c).                         *)
(*                                                                         *)
(* In SpecTW thread 1 is the ticking thread and also adds timers; the      *)
(* other threads only add timers.  In SpecTWSmoke every thread adds and    *)
(* ticks, and the main thread destroys the wheel when the threads are      *)
(* done.  A section of code that runs with the mutex of a slot held is one *)
(* step.                                                                   *)
(***************************************************************************)

\* no call made yet on the wheel, ops calls of the threads to come
TWStart(ops) ==
    /\ sht_create_custom
    /\ pc = [t \in Threads |-> "idle"]
    /\ lv = [t \in Threads |-> L0]
    /\ budget = <<0, ops>>
    /\ nsetup = 0
    /\ nconc = 0
    /\ nfail = 0
    /\ pq_create_custom
    /\ pqpc = [t \in Threads |-> "idle"]
    /\ pqlv = [t \in Threads |-> PL0]
    /\ pqn = 0
    /\ pqfail = 0
    /\ ub = FALSE

InitTW == TWStart(TWOps) /\ timer_wheel_create_custom

\* the threads make budget[2] calls in all
TWCanCall(t) ==
    /\ twpc[t] = "idle"
    /\ twn < budget[2]
    /\ ~tw.freed

TWGoto(t, l) == twpc' = [twpc EXCEPT ![t] = l]

\* the timers that are in a slot of the wheel
Queued == UNION {Range(slots[s]) : s \in DOMAIN slots}

FreeTimers == {x \in Timers : ~timer[x].alloc}

\* what the callback is given, as the caller of timer_wheel_add knows it
\* to, and at the wheel time (ns) of the call
Fired(x, at) == [c |-> timer[x].c, d |-> timer[x].d, expiry |-> timer[x].expiry,
                 at |-> at]

\* tw->expire_cb(timer->data) ; tw->free(timer)
tw_fire(x) == [timer EXCEPT ![x] = [FreeTimer EXCEPT !.fired = IF timer[x].fired < 2 THEN timer[x].fired + 1 ELSE 2]]

\* list_add: the node goes before the head of the circular list, at its tail
list_add(l, x) == Append(l, x)

\* list_remove of the head of the list
list_remove(l) == Tail(l)

\* the delay in ticks, had the division rounded down
tw_ticks_delay_floor(d) == d \div tw.tick_resolution

\* (delay_ns + tick_resolution - 1) / tick_resolution
tw_ticks_delay(d) == (d + tw.tick_resolution - 1) \div tw.tick_resolution

\* timer_wheel_add(tw, d, data) up to the lock of the slot
tw_add(t, d) ==
    /\ TWCanCall(t)
    /\ twn' = twn + 1
    /\  \/ /\ d = 0
           /\ tw' = [tw EXCEPT !.cpt_add = @ + 1]
           /\ twlv' = [twlv EXCEPT ![t] = [TL0 EXCEPT !.kind = "add", !.delay = d, !.ret = 0]]
           /\ TWGoto(t, "ret")
           /\ UNCHANGED <<timer, twfail>>
        \/ /\ d # 0
           /\ twfail < MaxAllocFail
           /\ twfail' = twfail + 1
           /\ tw' = [tw EXCEPT !.cpt_add = @ + 1]
           /\ twlv' = [twlv EXCEPT ![t] = [TL0 EXCEPT !.kind = "add", !.delay = d, !.ret = -1]]
           /\ TWGoto(t, "ret")
           /\ UNCHANGED timer
        \/ /\ d # 0
           /\ FreeTimers # {}
           /\ LET x == CHOOSE y \in FreeTimers : \A z \in FreeTimers : y <= z
                  ticks_delay == tw_ticks_delay(d)
                  expiry_tick == tw.current_tick + ticks_delay
              IN  /\ timer' = [timer EXCEPT ![x] =
                          [alloc |-> TRUE, expiry |-> expiry_tick * tw.tick_resolution,
                           c |-> tw.current_tick * tw.tick_resolution, d |-> d,
                           fired |-> 0]]
                  /\ twlv' = [twlv EXCEPT ![t] = [TL0 EXCEPT !.kind = "add", !.delay = d,
                          !.timer = x, !.ticks_delay = ticks_delay,
                          !.expiry_tick = expiry_tick]]
           /\ tw' = [tw EXCEPT !.cpt_add = @ + 1, !.added = @ + 1]
           /\ TWGoto(t, "add_lock")
           /\ UNCHANGED twfail
    /\ UNCHANGED slots
    /\ UNCHANGED <<shtVars, pqVars>>

timer_wheel_add(t) == \E d \in Delays : tw_add(t, d)

\* timer_wheel_add with the mutex of the slot: fire the timer if current_tick
\* moved since it was read, put it in the slot otherwise
timer_wheel_add_slot(t) ==
    /\ twpc[t] = "add_lock"
    /\ LET x == twlv[t].timer
           slot == BitAnd(twlv[t].expiry_tick, tw.mask)
       IN  \/ /\ twlv[t].expiry_tick < tw.current_tick + twlv[t].ticks_delay
              /\ timer' = tw_fire(x)
              /\ tw' = [tw EXCEPT !.cpt_add_expired = @ + 1, !.called = @ + 1]
              /\ twlv' = [twlv EXCEPT ![t] = [@ EXCEPT !.ret = 0,
                      !.fired = Append(@, Fired(x, tw.current_tick * tw.tick_resolution))]]
              /\ UNCHANGED slots
           \/ /\ ~(twlv[t].expiry_tick < tw.current_tick + twlv[t].ticks_delay)
              /\ slots' = [slots EXCEPT ![slot] = list_add(@, x)]
              /\ twlv' = [twlv EXCEPT ![t] = [@ EXCEPT !.ret = 0]]
              /\ UNCHANGED <<tw, timer>>
    /\ TWGoto(t, "ret")
    /\ UNCHANGED <<twn, twfail>>
    /\ UNCHANGED <<shtVars, pqVars>>

\* timer_wheel_tick(tw, now) up to its loop
tw_tick(t, now) ==
    /\ TWCanCall(t)
    /\ twn' = twn + 1
    /\  \/ /\ now < tw.current_tick
           /\ twlv' = [twlv EXCEPT ![t] = [TL0 EXCEPT !.kind = "tick", !.now = now,
                   !.from = tw.current_tick, !.ret = 0]]
           /\ TWGoto(t, "ret")
        \/ /\ ~(now < tw.current_tick)
           /\ twlv' = [twlv EXCEPT ![t] = [TL0 EXCEPT !.kind = "tick", !.now = now,
                   !.target_tick = now \div tw.tick_resolution,
                   !.tick = tw.current_tick, !.from = tw.current_tick]]
           /\ TWGoto(t, "tick_loop")
    /\ UNCHANGED <<tw, slots, timer, twfail>>
    /\ UNCHANGED <<shtVars, pqVars>>

\* the ticking thread calls timer_wheel_tick
timer_wheel_tick(t) == t = 1 /\ \E now \in Times : tw_tick(t, now)

\* the test of the loop, had it gone one tick past the target
tw_in_loop_past(tick, target_tick) == tick <= target_tick + 1

\* while (tick <= target_tick)
tw_in_loop(tick, target_tick) == tick <= target_tick

\* the head of the loop of timer_wheel_tick: take the list of the slot of
\* tick, or leave the loop and return
timer_wheel_tick_slot(t) ==
    /\ twpc[t] = "tick_loop"
    /\ \/ /\ tw_in_loop(twlv[t].tick, twlv[t].target_tick)
          /\ LET slot == BitAnd(twlv[t].tick, tw.mask)
             IN  /\ twlv' = [twlv EXCEPT ![t] = [@ EXCEPT !.head = slots[slot]]]
                 /\ slots' = [slots EXCEPT ![slot] = <<>>]
          /\ TWGoto(t, "tick_walk")
          /\ UNCHANGED tw
       \/ /\ ~tw_in_loop(twlv[t].tick, twlv[t].target_tick)
          /\ tw' = [tw EXCEPT !.cpt_expired = @ + twlv[t].expired_cpt]
          /\ twlv' = [twlv EXCEPT ![t] = [@ EXCEPT !.ret = twlv[t].expired_cpt]]
          /\ TWGoto(t, "ret")
          /\ UNCHANGED slots
    /\ UNCHANGED <<timer, twn, twfail>>
    /\ UNCHANGED <<shtVars, pqVars>>

\* the test of expiry, had it left out the timers that expire at current_time_ns
tw_expired_strict(x, now) == timer[x].expiry < now

\* atomic_incr(tw->cpt_timer_loop), had it counted the timer as expired too
tw_loop_expired(w) == [w EXCEPT !.cpt_timer_loop = @ + 1, !.cpt_expired = @ + 1]

\* atomic_incr(tw->cpt_timer_loop)
tw_loop(w) == [w EXCEPT !.cpt_timer_loop = @ + 1]

\* the expiry tick of a timer that is put back, had it been one tick later
tw_expiry_tick_next(x) == timer[x].expiry \div tw.tick_resolution + 1

\* expiry_tick = timer->expiry / tw->tick_resolution
tw_expiry_tick(x) == timer[x].expiry \div tw.tick_resolution

\* timer->expiry <= current_time_ns
tw_expired(x, now) == timer[x].expiry <= now

\* the walk of the list timer_wheel_tick took: fire the head if it expired,
\* put it back in the wheel otherwise; at the end of the list, the next tick
timer_wheel_tick_timer(t) ==
    /\ twpc[t] = "tick_walk"
    /\ \/ /\ twlv[t].head # <<>>
          /\ LET x == Head(twlv[t].head)
                 expiry_tick == tw_expiry_tick(x)
                 new_slot == BitAnd(expiry_tick, tw.mask)
             IN  \/ /\ tw_expired(x, twlv[t].now)
                    /\ timer' = tw_fire(x)
                    /\ twlv' = [twlv EXCEPT ![t] = [@ EXCEPT
                            !.head = list_remove(@), !.expired_cpt = @ + 1,
                            !.fired = Append(@, Fired(x, twlv[t].now))]]
                    /\ tw' = [tw EXCEPT !.called = @ + 1]
                    /\ UNCHANGED slots
                 \/ /\ ~tw_expired(x, twlv[t].now)
                    /\ slots' = [slots EXCEPT ![new_slot] = list_add(@, x)]
                    /\ tw' = tw_loop(tw)
                    /\ twlv' = [twlv EXCEPT ![t] = [@ EXCEPT !.head = list_remove(@)]]
                    /\ UNCHANGED timer
          /\ UNCHANGED twpc
       \/ /\ twlv[t].head = <<>>
          /\ tw' = [tw EXCEPT !.current_tick = @ + 1]
          /\ twlv' = [twlv EXCEPT ![t] = [@ EXCEPT !.tick = @ + 1]]
          /\ TWGoto(t, "tick_loop")
          /\ UNCHANGED <<slots, timer>>
    /\ UNCHANGED <<twn, twfail>>
    /\ UNCHANGED <<shtVars, pqVars>>

\* the caller takes the result
tw_return(t) ==
    /\ twpc[t] = "ret"
    /\ twlv' = [twlv EXCEPT ![t] = TL0]
    /\ TWGoto(t, "idle")
    /\ UNCHANGED <<tw, slots, timer, twn, twfail>>
    /\ UNCHANGED <<shtVars, pqVars>>

\* any thread calls timer_wheel_tick
timer_wheel_tick_any(t) == \E now \in Times : tw_tick(t, now)

\* tw->free(head), without a call of the callback
tw_free(x) == [FreeTimer EXCEPT !.fired = timer[x].fired]

\* tw->expire_cb(head->data) ; tw->free(head)
tw_call_free(x) ==
    [FreeTimer EXCEPT !.fired = IF timer[x].fired < 2 THEN timer[x].fired + 1 ELSE 2]

\* the test of the loop of timer_wheel_destroy, had it left out the last slot
tw_destroy_loop_short(i) == i < tw.mask

\* i < tw->size
tw_destroy_loop(i) == i < tw.size

\* timer_wheel_destroy(tw, do_callback), called by the main thread when the
\* threads are done, up to its loop on the slots
timer_wheel_destroy(t) ==
    /\ t = 1
    /\ \A u \in Threads : twpc[u] = "idle"
    /\ twn = budget[2]
    /\ ~tw.freed
    /\ \E do_callback \in BOOLEAN :
        twlv' = [twlv EXCEPT ![t] = [TL0 EXCEPT !.kind = "destroy",
                !.do_callback = do_callback, !.i = 0]]
    /\ TWGoto(t, "destroy_slot")
    /\ UNCHANGED <<tw, slots, timer, twn, twfail>>
    /\ UNCHANGED <<shtVars, pqVars>>

\* the loop of timer_wheel_destroy: with the mutex of slot i, call the
\* callback on every timer of the slot if do_callback, and free it; after the
\* last slot, free the slots, the mutexes and the wheel
timer_wheel_destroy_slot(t) ==
    /\ twpc[t] = "destroy_slot"
    /\ \/ /\ tw_destroy_loop(twlv[t].i)
          /\ LET i == twlv[t].i
                 nodes == Range(slots[i])
             IN  /\ timer' = [x \in Timers |->
                         IF x \notin nodes THEN timer[x]
                         ELSE IF twlv[t].do_callback THEN tw_call_free(x)
                         ELSE tw_free(x)]
                 /\ tw' = [tw EXCEPT !.called =
                         IF twlv[t].do_callback THEN @ + Len(slots[i]) ELSE @]
          /\ twlv' = [twlv EXCEPT ![t] = [@ EXCEPT !.i = @ + 1]]
          /\ UNCHANGED <<slots, twpc>>
       \/ /\ ~tw_destroy_loop(twlv[t].i)
          /\ slots' = [s \in DOMAIN slots |-> <<>>]
          /\ tw' = [tw EXCEPT !.freed = TRUE]
          /\ twlv' = [twlv EXCEPT ![t] = [@ EXCEPT !.ret = 0]]
          /\ TWGoto(t, "ret")
          /\ UNCHANGED timer
    /\ UNCHANGED <<twn, twfail>>
    /\ UNCHANGED <<shtVars, pqVars>>

\* timer_wheel_create_custom(size_arg, ...) of another wheel: NULL if an
\* allocation fails, a wheel of tw_size(size_arg) slots otherwise
timer_wheel_create(t) ==
    /\ TWCanCall(t)
    /\ twn' = twn + 1
    /\ \E size_arg \in SizeArgs :
        \/ /\ twfail < MaxAllocFail
           /\ twfail' = twfail + 1
           /\ twlv' = [twlv EXCEPT ![t] = [TL0 EXCEPT !.kind = "create",
                   !.size_arg = size_arg, !.ret = NULL]]
        \/ /\ twlv' = [twlv EXCEPT ![t] = [TL0 EXCEPT !.kind = "create",
                   !.size_arg = size_arg, !.size = tw_size(size_arg),
                   !.mask = u32_dec(tw_size(size_arg)), !.ret = 1]]
           /\ UNCHANGED twfail
    /\ TWGoto(t, "ret")
    /\ UNCHANGED <<tw, slots, timer>>
    /\ UNCHANGED <<shtVars, pqVars>>

NextTW ==
    \E t \in Threads :
        \/ timer_wheel_add(t)
        \/ timer_wheel_add_slot(t)
        \/ timer_wheel_tick(t)
        \/ timer_wheel_tick_slot(t)
        \/ timer_wheel_tick_timer(t)
        \/ tw_return(t)

SpecTW == InitTW /\ [][NextTW]_vars

\* the threads of the smoke test add and tick; then the main thread destroys
\* the wheel
NextTWSmoke ==
    \E t \in Threads :
        \/ timer_wheel_add(t)
        \/ timer_wheel_add_slot(t)
        \/ timer_wheel_tick_any(t)
        \/ timer_wheel_tick_slot(t)
        \/ timer_wheel_tick_timer(t)
        \/ tw_return(t)
        \/ timer_wheel_destroy(t)
        \/ timer_wheel_destroy_slot(t)

InitTWSmoke == TWStart(TWSmokeOps) /\ timer_wheel_create_custom

SpecTWSmoke == InitTWSmoke /\ [][NextTWSmoke]_vars

\* the threads create wheels of every size
NextTWCreate ==
    \E t \in Threads :
        \/ timer_wheel_create(t)
        \/ tw_return(t)

InitTWCreate == TWStart(CreateOps) /\ timer_wheel_create_custom

SpecTWCreate == InitTWCreate /\ [][NextTWCreate]_vars

(***************************************************************************)
(* test_timer_wrapping: a wheel of 16 slots and 1000 ns per tick, one      *)
(* timer of (16 + 5) * 1000 ns, then timer_wheel_tick(i * 1000) for i from *)
(* 1 to 21, by one thread.                                                 *)
(***************************************************************************)

WrapTicks == WrapSize + WrapExtra

InitTWWrap == TWStart(WrapTicks + 1) /\ tw_created(WrapSize, WrapRes)

\* rv = timer_wheel_add(tw, (wheel_size + 5) * tick_res_ns, &data)
wrap_add(t) ==
    /\ t = 1
    /\ twn = 0
    /\ tw_add(t, WrapTicks * WrapRes)

\* timer_wheel_tick(tw, i * tick_res_ns), the i-th call after the add
wrap_tick(t) ==
    /\ t = 1
    /\ twn >= 1
    /\ tw_tick(t, twn * WrapRes)

NextTWWrap ==
    \E t \in Threads :
        \/ wrap_add(t)
        \/ wrap_tick(t)
        \/ timer_wheel_add_slot(t)
        \/ timer_wheel_tick_slot(t)
        \/ timer_wheel_tick_timer(t)
        \/ tw_return(t)

SpecTWWrap == InitTWWrap /\ [][NextTWWrap]_vars

(***************************************************************************)
(* Claims on the timer wheel.                                              *)
(***************************************************************************)

\* a call of timer_wheel_tick of thread t has returned and the caller has not
\* taken the result yet
TickReturned(t) == twpc[t] = "ret" /\ twlv[t].kind = "tick"

\* C19: when timer_wheel_tick(T) returns, every timer of the wheel whose
\* expiry is at most T has fired, and no timer fired more than once; this
\* also when T is many ticks, or more than a revolution, ahead.
C19_TickFiresAllDue ==
    /\ \A x \in Timers : timer[x].fired <= 1
    /\ \A t \in Threads :
        TickReturned(t) => \A x \in Queued : timer[x].expiry > twlv[t].now

\* a tick that went through more than a revolution of the wheel and fired a
\* timer that was more than a revolution ahead
C19_Witness ==
    \E t \in Threads :
        /\ TickReturned(t)
        /\ twlv[t].target_tick - twlv[t].from >= tw.size
        /\ twlv[t].ret >= 1
        /\ \E k \in 1..Len(twlv[t].fired) :
            twlv[t].fired[k].expiry >= (twlv[t].from + tw.size) * tw.tick_resolution

\* the delay d rounded up to a multiple of the resolution of the wheel
RoundUp(d) ==
    IF d % tw.tick_resolution = 0 THEN d
    ELSE d + tw.tick_resolution - (d % tw.tick_resolution)

\* C20 (as stated): a timer added with delay D at wheel time C has fired when
\* the first timer_wheel_tick(T) with T >= C + D returns: after a tick(T) no
\* timer with C + D <= T is left in the wheel.
C20_FiresAtFirstTickAfterDelay ==
    \A t \in Threads :
        TickReturned(t) => \A x \in Queued : twlv[t].now < timer[x].c + timer[x].d

\* C20 (amended): a timer that timer_wheel_add put in the wheel with delay D
\* at wheel time C = current_tick * tick_resolution expires at C + D rounded
\* up to a multiple of the resolution; it is fired by the first
\* timer_wheel_tick(T) with T at or after that time, and by no earlier tick.
C20_FiresAtFirstTickAfterRoundedDelay ==
    /\ \A x \in Queued : timer[x].expiry = timer[x].c + RoundUp(timer[x].d)
    /\ \A t \in Threads :
        TickReturned(t) =>
            \A x \in Queued : twlv[t].now < timer[x].c + RoundUp(timer[x].d)
    /\ \A t \in Threads :
        twlv[t].kind = "tick" =>
            \A k \in 1..Len(twlv[t].fired) :
                twlv[t].fired[k].c + RoundUp(twlv[t].fired[k].d) <= twlv[t].now

\* after earlier ticks, a timer whose delay is not a multiple of the
\* resolution was fired by a tick
C20_Witness ==
    \E t \in Threads :
        /\ TickReturned(t)
        /\ \E k \in 1..Len(twlv[t].fired) :
            /\ twlv[t].fired[k].d % tw.tick_resolution # 0
            /\ twlv[t].fired[k].c > 0
            /\ twlv[t].now < twlv[t].fired[k].expiry + tw.tick_resolution

\* C21: the callback of a timer added with delay D at wheel time C is never
\* called before the wheel time C + D: not by a tick(T) with T < C + D, and
\* not by timer_wheel_add at a wheel time before C + D.
C21_NeverFiresEarly ==
    \A t \in Threads :
        \A k \in 1..Len(twlv[t].fired) :
            twlv[t].fired[k].at >= twlv[t].fired[k].c + twlv[t].fired[k].d

\* thread t, in timer_wheel_tick, takes the head of the list it walks
TakesHead(t) ==
    /\ twpc[t] = "tick_walk"
    /\ twlv[t].head # <<>>
    /\ twlv'[t] # twlv[t]

\* C22: when timer_wheel_tick visits a timer before its expiry it puts the
\* timer back in its slot and increments cpt_timer_loop, without a call of the
\* callback and without counting it as expired; when it visits it at or after
\* its expiry it calls the callback once and frees the timer, so a timer more
\* than a revolution ahead fires once, not once per revolution.
C22_Step(t) ==
    TakesHead(t) =>
        LET x == Head(twlv[t].head)
        IN  IF timer[x].expiry > twlv[t].now
            THEN /\ tw'.cpt_timer_loop = tw.cpt_timer_loop + 1
                 /\ timer' = timer
                 /\ tw'.called = tw.called
                 /\ tw'.cpt_expired = tw.cpt_expired
                 /\ twlv'[t].expired_cpt = twlv[t].expired_cpt
                 /\ x \in Range(slots'[BitAnd(timer[x].expiry \div tw.tick_resolution, tw.mask)])
            ELSE /\ tw'.cpt_timer_loop = tw.cpt_timer_loop
                 /\ timer[x].fired = 0
                 /\ timer'[x].fired = 1
                 /\ ~timer'[x].alloc
                 /\ tw'.called = tw.called + 1
                 /\ twlv'[t].expired_cpt = twlv[t].expired_cpt + 1
                 /\ slots' = slots

C22_LongTimerFiresOnce == [][\A t \in Threads : C22_Step(t)]_vars

\* a timer more than a revolution ahead was put back once and then fired
C22_Witness ==
    \E t \in Threads :
        /\ TickReturned(t)
        /\ tw.cpt_timer_loop >= 1
        /\ tw.cpt_expired = 1
        /\ \E k \in 1..Len(twlv[t].fired) :
            twlv[t].fired[k].d > tw.size * tw.tick_resolution

\* thread t runs a timer_wheel_tick(now) with now before the time of the wheel
Behind(t) ==
    /\ twlv[t].kind = "tick"
    /\ twlv[t].now < twlv[t].from * tw.tick_resolution

\* C24: a timer_wheel_tick(now) with now less than the time of the wheel
\* (current_tick * tick_resolution) fires no timer, returns 0 and leaves
\* current_tick and the slots as they are; current_tick never decreases.
C24_Step(t) ==
    (Behind(t)' /\ twlv'[t] # twlv[t]) =>
        /\ slots' = slots
        /\ timer' = timer
        /\ tw'.current_tick = tw.current_tick
        /\ twlv'[t].fired = <<>>
        /\ twpc'[t] = "ret" => twlv'[t].ret = 0

C24_TickBackNoOp ==
    [][/\ \A t \in Threads : C24_Step(t)
       /\ tw'.current_tick >= tw.current_tick]_vars

\* a tick behind the time of the wheel, but not below current_tick, returned
\* while a timer is in the wheel
C24_Witness ==
    \E t \in Threads :
        /\ TickReturned(t)
        /\ Behind(t)
        /\ twlv[t].now >= twlv[t].from
        /\ twlv[t].from > 0
        /\ Queued # {}

\* a timer_wheel_destroy without callbacks is running or has returned
DestroyedSilently ==
    \/ \E t \in Threads : twlv[t].kind = "destroy" /\ ~twlv[t].do_callback
    \/ tw.freed /\ \A t \in Threads : twlv[t].kind # "destroy"

\* C25: under any interleaving of adds and ticks of the threads followed by
\* timer_wheel_destroy(tw, 1), the callback is called exactly once for every
\* timer added: no timer more than once, every timer is either still
\* allocated or was passed to the callback, and none is left after destroy.
C25_CallbackExactlyOnce ==
    /\ \A x \in Timers : timer[x].fired <= 1
    /\ ~DestroyedSilently =>
        tw.added = tw.called + Cardinality({x \in Timers : timer[x].alloc})
    /\ \A t \in Threads :
        (twpc[t] = "ret" /\ twlv[t].kind = "destroy" /\ twlv[t].do_callback) =>
            /\ tw.called = tw.added
            /\ \A x \in Timers : ~timer[x].alloc

\* destroy with callbacks returned; one timer was fired by a tick or by add,
\* another by destroy
C25_Witness ==
    \E t \in Threads :
        /\ twpc[t] = "ret" /\ twlv[t].kind = "destroy" /\ twlv[t].do_callback
        /\ tw.added = 2
        /\ tw.cpt_expired + tw.cpt_add_expired = 1

\* C26: timer_wheel_add calls the callback itself, and does not put the timer
\* in the wheel, if and only if current_tick has reached or passed the expiry
\* tick it computed by the time it holds the mutex of the slot.
C26_Step(t) ==
    (twpc[t] = "add_lock" /\ twpc'[t] = "ret") =>
        /\ twlv'[t].fired # <<>> => tw.current_tick >= twlv[t].expiry_tick
        /\ twlv'[t].fired = <<>> =>
            /\ ~(tw.current_tick > twlv[t].expiry_tick)
            /\ twlv[t].timer \in Queued'

C26_InlineFireIffPassed == [][\A t \in Threads : C26_Step(t)]_vars

\* the power of two (one bit set) that is the smallest at or above n, for a
\* uint32_t n that is not 0; past 2^31 there is none in 32 bits
IsSmallestPowerOf2AtOrAbove(size, n) ==
    /\ Cardinality(size) = 1
    /\ \A i \in size :
        /\ \A j \in n : j <= i
        /\ Cardinality(n) > 1 => i - 1 \in n

\* C27: for every 32-bit size asked, timer_wheel_create_custom returns a
\* wheel whose size is a power of two: 256 when 0 is asked, the smallest
\* power of two at or above the size asked otherwise; and mask = size - 1.
C27_SizePowerOfTwo ==
    \A t \in Threads :
        (twpc[t] = "ret" /\ twlv[t].kind = "create" /\ twlv[t].ret # NULL) =>
            /\ twlv[t].size_arg = {} => twlv[t].size = {8}
            /\ twlv[t].size_arg # {} =>
                IsSmallestPowerOf2AtOrAbove(twlv[t].size, twlv[t].size_arg)
            /\ twlv[t].mask = {i \in Bits32 : \A j \in twlv[t].size : i < j}

\* the last tick of test_timer_wrapping has returned
WrapDone == twn = WrapTicks + 1 /\ TickReturned(1)

\* C23 (as stated): in test_timer_wrapping, when the add succeeded, nothing
\* fires during ticks 1 to 20, tick 21 fires the timer once, and
\* cpt_timer_loop increases exactly once, between tick 16 and tick 21: it is
\* 0 up to the return of tick 16 and 1 at the end.
C23_WrapLoopAfterRevolution ==
    tw.added = 1 =>
        /\ twn <= WrapTicks => tw.called = 0
        /\ WrapDone => tw.called = 1 /\ twlv[1].ret = 1
        /\ twn <= WrapSize + 1 => tw.cpt_timer_loop = 0
        /\ WrapDone => tw.cpt_timer_loop = 1

\* C23 (amended): in test_timer_wrapping, when the add succeeded, nothing
\* fires during ticks 1 to 20, tick 21 fires the timer once, and
\* cpt_timer_loop increases exactly once, during tick 5, the first visit of
\* the slot of the timer (21 & 15 = 5): it is 0 up to the return of tick 4
\* and 1 from the return of tick 5 on.
C23_WrapLoopAtFirstVisit ==
    tw.added = 1 =>
        /\ twn <= WrapTicks => tw.called = 0
        /\ WrapDone => tw.called = 1 /\ twlv[1].ret = 1
        /\ tw.cpt_timer_loop <= 1
        /\ twn <= WrapExtra => tw.cpt_timer_loop = 0
        /\ (twn = WrapExtra + 1 /\ TickReturned(1)) => tw.cpt_timer_loop = 1
        /\ twn > WrapExtra + 1 => tw.cpt_timer_loop = 1

\* the timer was added and the last tick fired it
C23_Witness ==
    /\ WrapDone
    /\ tw.added = 1
    /\ tw.called = 1
    /\ tw.cpt_timer_loop = 1
    /\ Len(twlv[1].fired) = 1

(***************************************************************************)
(* The resize of the hash table: when it is requested, and what is in      *)
(* flight when the tables are swapped.                                     *)
(***************************************************************************)

\* the step by which the call of thread t places its new entry in a line
Places(t) ==
    \/ pc[t] = "ins_node" /\ pc'[t] = "ret"
    \/ pc[t] = "li_second" /\ len' # len

\* the step by which the call of thread t tests the length of its line
Tests(t) == pc[t] \in {"ins_chk", "li_chk"} /\ pc'[t] # pc[t]

CallLine(t) ==
    IF lv[t].kind = "insert" THEN LineOf(node[lv[t].node].hash)
    ELSE LineOf(Hash(lv[t].key))

\* C28 as stated: an insert, or a lookup_insert that inserts, which leaves
\* its line longer than max_line_depth has requested a resize in that call
C28_ResizeJudgedAfterPlacing ==
    [][\A t \in Threads :
          Places(t) /\ len'[lv[t].line] > h.max_line_depth => lv[t].dsreq]_vars

\* C28 amended: the request is judged on the length the call reads before it
\* places its entry: a call requests a resize exactly when its line is longer
\* than max_line_depth at that test, and the request made then is the one
\* the call has made when it places its entry
C28_ResizeJudgedBeforePlacing ==
    [][\A t \in Threads :
          /\ Tests(t) =>
                /\ lv'[t].dsreq <=> (len[CallLine(t)] > h.max_line_depth)
                /\ lv'[t].dsreq <=> (pc'[t] = "ds_try")
          /\ ~Tests(t) /\ pc[t] # "idle" /\ pc'[t] # "idle" =>
                lv'[t].dsreq = lv[t].dsreq]_vars

\* an insert that found its line too long has requested a resize and placed
\* its entry
C28_Witness ==
    \E t \in Threads :
        /\ pc[t] = "ret" /\ lv[t].kind = "insert" /\ lv[t].ret = 0
        /\ lv[t].dsreq

\* thread t is in sht_double_size past the one-shot flag
PastFlag(t) == pc[t] \in {"ds_prep", "ds_lock", "ds_wait"}

\* the step that installs a new array of lines
Installs == h'.size # h.size

\* C29: at most one thread is past the one-shot flag of sht_double_size, and
\* a new array of lines is installed only when there is no old table, the
\* old pointer being set by that step alone
C29_OneResizeAtATime ==
    /\ [](\A t, u \in Threads : PastFlag(t) /\ PastFlag(u) => t = u)
    /\ [][/\ Installs => old = NoOld /\ old' # NoOld
          /\ old # NoOld /\ old' # NoOld => old'.size = old.size]_vars

\* a thread is past the flag while another one calls sht_double_size
C29_Witness ==
    \E t, u \in Threads : t # u /\ PastFlag(t) /\ pc[u] = "ds_try"


\* thread u is registered in h->ref, where it may hold a pointer to a line
\* or the lock of a line
Inside(u) == pc[u] \notin {"idle", "ret", "ins_ref"}

\* the step of _sht_gc that sets h->old to NULL
Retires == old # NoOld /\ old' = NoOld

UsesOld(t) ==
    pc[t] \in {"lk_old", "rm_old", "gc_loop", "gc_mv", "gc_end", "gc_fin",
               "gc_fin_wait"}

HoldsLine(t) == pc[t] \in {"ins_node", "li_alloc", "li_second"}

\* C30: when the new lines are installed and when h->old is set to NULL,
\* h->ref is 1, the reference of the thread that takes the step, no other
\* thread is inside a call and no line of the old table is locked; a thread
\* that is in the old table has an old table, and a thread that holds a line
\* holds the line of its key in the lines of the current table
C30_SwapWhenAlone ==
    /\ [][Installs \/ Retires =>
             /\ h.ref = 1
             /\ \E t \in Threads :
                   /\ pc[t] \in {"ds_wait", "gc_fin_wait"} /\ pc'[t] # pc[t]
                   /\ \A u \in Threads \ {t} : ~Inside(u)
             /\ old.wrlock = -1]_vars
    /\ [](\A t \in Threads :
             /\ UsesOld(t) => old # NoOld
             /\ HoldsLine(t) =>
                   lv[t].line \in DOMAIN lines /\ lv[t].line = CallLine(t))

\* the new lines have been installed, the old table is drained, and the
\* thread that will set h->old to NULL waits for another call to leave
C30_Witness ==
    \E t, u \in Threads :
        /\ t # u /\ pc[t] = "gc_fin_wait" /\ Inside(u)
        /\ h.ref > 1 /\ h.cpt_double_size > 0

(***************************************************************************)
(* The entries of the hash table and the lines that hold them.             *)
(***************************************************************************)

\* the nodes linked from line i of the old table, the node that _sht_gc is
\* moving included
OldLinked(i) == Range(old.lines[i])

\* C31: every node linked from a line of the current table, or of the old
\* table, is in the line of index hash % size of that table
C31_EntryInItsLine ==
    /\ \A i \in DOMAIN lines :
          \A n \in Range(lines[i]) : node[n].hash % h.size = i
    /\ old # NoOld =>
          \A i \in DOMAIN old.lines :
             \A n \in OldLinked(i) : node[n].hash % old.size = i

\* _sht_gc has put an entry of the old table in a line of the doubled table
\* that has another index than its old line, and has not unlinked it yet
C31_Witness ==
    \E t \in Threads :
        /\ pc[t] = "gc_mv" /\ h.size > InitSize
        /\ LineOf(node[Head(old.lines[old.wrlock])].hash) # old.wrlock

\* the sum of the len counters of a table
RECURSIVE SumLen(_, _)
SumLen(f, D) ==
    IF D = {} THEN 0
    ELSE LET i == CHOOSE j \in D : TRUE IN f[i] + SumLen(f, D \ {i})

Counted == SumLen(len, DOMAIN len) + SumLen(old.len, DOMAIN old.len)

\* the entries of the table: the nodes linked from a line
Linked == CurNodes \cup UNION {OldLinked(i) : i \in DOMAIN old.lines}

\* a move of _sht_gc is half done: the node is in its new line and the old
\* line, which the moving thread holds locked, is not updated yet
Moving == \E t \in Threads : pc[t] = "gc_mv"

\* C32 as stated: the len counters of the current and the old table add up
\* to the number of entries, in every state
C32_LenSumIsEntries == Counted = Cardinality(Linked)

\* C32 amended: the len counters add up to the number of entries that a
\* thread can reach under the locks of the lines, plus one while a move of
\* _sht_gc is half done, when the moved entry is counted in its new line
\* and still counted in its old line
C32_LenSumIsEntriesPlusMove ==
    Counted = Cardinality(CurNodes \cup OldNodes) + (IF Moving THEN 1 ELSE 0)

\* a move is half done while the table holds entries in both tables
C32_Witness == Moving /\ CurNodes # {} /\ OldNodes # {}

\* the number of places of the lines of the current table, of the old table,
\* where node n is linked
RECURSIVE Places_in(_, _, _)
Places_in(n, ls, D) ==
    IF D = {} THEN 0
    ELSE LET i == CHOOSE j \in D : TRUE
         IN Cardinality({p \in DOMAIN ls[i] : ls[i][p] = n})
            + Places_in(n, ls, D \ {i})

InCurrent(n) == Places_in(n, lines, DOMAIN lines)
InOld(n) == Places_in(n, old.lines, DOMAIN old.lines)

\* node n is the candidate of a call that has not placed it yet
Candidate(n) ==
    \E t \in Threads :
        /\ lv[t].node = n
        /\ pc[t] \in {"ins_ref", "ins_chk", "ins_node", "ds_try", "ds_prep",
                      "ds_lock", "ds_wait", "li_second"}

\* node n is an entry: it is allocated and no call still holds it as its
\* candidate
Live(n) == node[n].key # NULL /\ ~Candidate(n)

\* node n is the head of the old line that a thread holds locked between
\* the two halves of a move
MovedHead(n) == Moving /\ old.lines[old.wrlock][1] = n

C36_OldTableEmptyWhenDestroyed ==
    /\ [](old # NoOld =>
             \A i \in DOMAIN old.lines : i < old.gc_index => old.lines[i] = <<>>)
    /\ [][/\ old # NoOld /\ old' # NoOld =>
                \A i \in DOMAIN old.lines :
                   Len(old'.lines[i]) <= Len(old.lines[i])
          /\ Retires =>
                /\ \A i \in DOMAIN old.lines : old.lines[i] = <<>>
                /\ node' = node]_vars

\* the migration of a resized table is over, the old table is destroyed and
\* the entries it held are in the current table
C36_Witness ==
    /\ old = NoOld /\ h.cpt_double_size > 0
    /\ Cardinality(CurNodes) > 1

(***************************************************************************)
(* Progress of the calls on the hash table.                                *)
(***************************************************************************)

\* the steps of a call of thread t that is under way
sht_continue(t) ==
    \/ sht_insert_ref(t)
    \/ sht_insert_check(t)
    \/ sht_insert_node(t)
    \/ sht_double_size_flag(t)
    \/ sht_double_size_prepare(t)
    \/ sht_double_size_lock(t)
    \/ sht_double_size_publish(t)
    \/ sht_gc_loop(t)
    \/ sht_gc_unlink(t)
    \/ sht_gc_end(t)
    \/ sht_gc_finish_lock(t)
    \/ sht_gc_finish(t)
    \/ sht_gc_return(t)
    \/ sht_lookup_current(t)
    \/ sht_lookup_old(t)
    \/ sht_remove_current(t)
    \/ sht_remove_old(t)
    \/ sht_lookup_insert_check(t)
    \/ sht_lookup_insert_old(t)
    \/ sht_lookup_insert_first(t)
    \/ sht_lookup_insert_alloc(t)
    \/ sht_lookup_insert_second(t)

\* the scheduler lets every thread run: a call that can take a step does not
\* wait for ever
\* the calls of thread 1 alone, then two calls among the threads
InitSHTFair ==
    /\ sht_create_custom
    /\ timer_wheel_create_custom
    /\ pq_create_custom
    /\ pqpc = [t \in Threads |-> "idle"]
    /\ pqlv = [t \in Threads |-> PL0]
    /\ pqn = 0
    /\ pqfail = 0
    /\ ub = FALSE
    /\ pc = [t \in Threads |-> "idle"]
    /\ lv = [t \in Threads |-> L0]
    /\ budget = <<SetupOps, ConcOps>>
    /\ nsetup = 0
    /\ nconc = 0
    /\ nfail = 0

SpecSHTFair ==
    /\ InitSHTFair
    /\ [][NextSHT]_vars
    /\ \A t \in Threads : WF_vars(sht_continue(t))

\* thread t spins under h->global_lock until h->ref is 1
Spins(t) == pc[t] \in {"ds_wait", "gc_fin_wait"}

\* thread t waits for h->global_lock
WaitsLock(t) == pc[t] \in {"ins_ref", "ds_lock", "gc_fin"}

\* C37: while a call is under way some call can take a step, a thread that
\* spins under the global lock never waits for a registered thread that
\* waits for that lock, and every call that has started returns: the calls
\* being finitely many, in the end no call is under way
C37_NoDeadlock ==
    /\ []((\E t \in Threads : Running(t)) =>
             \E t \in Threads : ENABLED sht_continue(t))
    /\ [](\A t, u \in Threads :
             Spins(t) /\ t # u /\ Inside(u) => ~WaitsLock(u) /\ ~Spins(u))
    /\ <>[](\A t \in Threads : ~Running(t))

\* a thread spins under the global lock while another call is registered
C37_Witness ==
    \E t, u \in Threads : t # u /\ Spins(t) /\ Inside(u) /\ h.ref > 1


\* C38: a call of sht_double_size made while there is no old table, no
\* thread is past the one-shot flag and the global lock is free starts a
\* resize, whatever became of the earlier attempts
C38_Step(t) ==
    /\ pc[t] = "ds_try" /\ pc'[t] # "ds_try"
    /\ old = NoOld /\ h.global_lock = 0
    /\ \A u \in Threads : ~PastFlag(u)
    => pc'[t] = "ds_prep"

C38_ResizeAgainAfterFailure == [][\A t \in Threads : C38_Step(t)]_vars

(***************************************************************************)
(* The mutex of the queue.                                                 *)
(***************************************************************************)

\* C39: a thread holds the mutex of the queue only between its
\* pthread_mutex_lock and its pthread_mutex_unlock, so that a call returns
\* with the mutex released, and no call unlocks the mutex a second time
C39_ReturnsUnlockedOnce ==
    \A t \in Threads :
        /\ pq.lock = t => InCS(t)
        /\ pqpc[t] # "expire_unlock"

(***************************************************************************)
(* The slots of the timer wheel.                                           *)
(***************************************************************************)

\* C34: a timer that is linked in a slot is in the slot of its expiry tick,
\* (expiry / tick_resolution) & mask; the timers of a list that a tick has
\* detached and is walking are in no slot
C34_TimerInSlotOfExpiryTick ==
    \A s \in DOMAIN slots :
        \A p \in DOMAIN slots[s] :
            BitAnd(timer[slots[s][p]].expiry \div tw.tick_resolution, tw.mask) = s

\* a tick has put a long timer back, and the timer is linked in a slot
C34_Witness ==
    /\ tw.cpt_timer_loop > 0
    /\ \E s \in DOMAIN slots : slots[s] # <<>>
    /\ \A t \in Threads : twpc[t] \in {"idle", "ret"}

(***************************************************************************)
(* The mutexes of the slots.  In SpecTWLock pthread_mutex_lock and         *)
(* pthread_mutex_unlock of timer_wheel_add and timer_wheel_tick are steps  *)
(* of their own: tw.lock[s] is the thread that holds the mutex of slot s,  *)
(* or 0.  Every thread adds and ticks.                                     *)
(***************************************************************************)

InitTWLock == TWStart(TWLockOps) /\ timer_wheel_create_custom

\* pthread_mutex_unlock(&tw->lock[s]), had it been left out
pthread_mutex_unlock_missing(w, s) == w

\* pthread_mutex_unlock(&tw->lock[s])
pthread_mutex_unlock(w, s) == [w EXCEPT !.lock[s] = 0]

\* pthread_mutex_lock(&tw->lock[s]), had it taken nothing
pthread_mutex_lock_nothing(w, s, t) == w

\* pthread_mutex_lock(&tw->lock[s]) by thread t, once the mutex is free
pthread_mutex_lock(w, s, t) == [w EXCEPT !.lock[s] = t]

\* timer_wheel_add: uint32_t slot = expiry_tick & tw->mask;
\* pthread_mutex_lock(&tw->lock[slot])
timer_wheel_add_lock(t) ==
    /\ twpc[t] = "add_lock"
    /\ LET slot == BitAnd(twlv[t].expiry_tick, tw.mask)
       IN  /\ tw.lock[slot] = 0
           /\ tw' = pthread_mutex_lock(tw, slot, t)
    /\ TWGoto(t, "add_cs")
    /\ UNCHANGED <<slots, timer, twlv, twn, twfail>>
    /\ UNCHANGED <<shtVars, pqVars>>

\* timer_wheel_add with the mutex held: the test of current_tick, then the
\* unlock before the callback, or on to list_add with the mutex still held
timer_wheel_add_locked(t) ==
    /\ twpc[t] = "add_cs"
    /\ LET slot == BitAnd(twlv[t].expiry_tick, tw.mask)
       IN  \/ /\ twlv[t].expiry_tick < tw.current_tick + twlv[t].ticks_delay
              /\ tw' = pthread_mutex_unlock(tw, slot)
              /\ TWGoto(t, "add_fire")
           \/ /\ ~(twlv[t].expiry_tick < tw.current_tick + twlv[t].ticks_delay)
              /\ tw' = tw
              /\ TWGoto(t, "add_put")
    /\ UNCHANGED <<slots, twlv, timer, twn, twfail>>
    /\ UNCHANGED <<shtVars, pqVars>>

\* timer_wheel_add: list_add(&tw->slots[slot], timer);
\* pthread_mutex_unlock(&tw->lock[slot]); return 0
timer_wheel_add_put(t) ==
    /\ twpc[t] = "add_put"
    /\ LET x == twlv[t].timer
           slot == BitAnd(twlv[t].expiry_tick, tw.mask)
       IN  /\ slots' = [slots EXCEPT ![slot] = list_add(@, x)]
           /\ tw' = pthread_mutex_unlock(tw, slot)
           /\ twlv' = [twlv EXCEPT ![t] = [@ EXCEPT !.ret = 0]]
    /\ TWGoto(t, "ret")
    /\ UNCHANGED <<timer, twn, twfail>>
    /\ UNCHANGED <<shtVars, pqVars>>

\* timer_wheel_add: tw->expire_cb(timer->data); tw->free(timer);
\* atomic_incr(tw->cpt_add_expired); return 0
timer_wheel_add_fire(t) ==
    /\ twpc[t] = "add_fire"
    /\ LET x == twlv[t].timer
       IN  /\ timer' = tw_fire(x)
           /\ tw' = [tw EXCEPT !.cpt_add_expired = @ + 1, !.called = @ + 1]
           /\ twlv' = [twlv EXCEPT ![t] = [@ EXCEPT !.ret = 0,
                   !.fired = Append(@, Fired(x, tw.current_tick * tw.tick_resolution))]]
    /\ TWGoto(t, "ret")
    /\ UNCHANGED <<slots, twn, twfail>>
    /\ UNCHANGED <<shtVars, pqVars>>

\* timer_wheel_tick: the test of the loop, then
\* pthread_mutex_lock(&tw->lock[slot]), or the return after the loop
timer_wheel_tick_lock(t) ==
    /\ twpc[t] = "tick_loop"
    /\ \/ /\ tw_in_loop(twlv[t].tick, twlv[t].target_tick)
          /\ LET slot == BitAnd(twlv[t].tick, tw.mask)
             IN  /\ tw.lock[slot] = 0
                 /\ tw' = pthread_mutex_lock(tw, slot, t)
          /\ TWGoto(t, "tick_cs")
          /\ twlv' = twlv
       \/ /\ ~tw_in_loop(twlv[t].tick, twlv[t].target_tick)
          /\ tw' = [tw EXCEPT !.cpt_expired = @ + twlv[t].expired_cpt]
          /\ twlv' = [twlv EXCEPT ![t] = [@ EXCEPT !.ret = twlv[t].expired_cpt]]
          /\ TWGoto(t, "ret")
    /\ UNCHANGED <<slots, timer, twn, twfail>>
    /\ UNCHANGED <<shtVars, pqVars>>

\* head = tw->slots[slot]; tw->slots[slot] = NULL;
\* pthread_mutex_unlock(&tw->lock[slot])
timer_wheel_tick_detach(t) ==
    /\ twpc[t] = "tick_cs"
    /\ LET slot == BitAnd(twlv[t].tick, tw.mask)
       IN  /\ twlv' = [twlv EXCEPT ![t] = [@ EXCEPT !.head = slots[slot]]]
           /\ slots' = [slots EXCEPT ![slot] = <<>>]
           /\ tw' = pthread_mutex_unlock(tw, slot)
    /\ TWGoto(t, "tick_scan")
    /\ UNCHANGED <<timer, twn, twfail>>
    /\ UNCHANGED <<shtVars, pqVars>>

\* the walk of the detached list: the callback and the free of a timer that
\* has expired; pthread_mutex_lock(&tw->lock[new_slot]) for one that has not;
\* at the end of the list atomic_incr(tw->current_tick); tick++
timer_wheel_tick_scan(t) ==
    /\ twpc[t] = "tick_scan"
    /\ \/ /\ twlv[t].head # <<>>
          /\ LET x == Head(twlv[t].head)
                 new_slot == BitAnd(tw_expiry_tick(x), tw.mask)
             IN  \/ /\ tw_expired(x, twlv[t].now)
                    /\ timer' = tw_fire(x)
                    /\ twlv' = [twlv EXCEPT ![t] = [@ EXCEPT
                            !.head = list_remove(@), !.expired_cpt = @ + 1,
                            !.fired = Append(@, Fired(x, twlv[t].now))]]
                    /\ tw' = [tw EXCEPT !.called = @ + 1]
                    /\ UNCHANGED twpc
                 \/ /\ ~tw_expired(x, twlv[t].now)
                    /\ tw.lock[new_slot] = 0
                    /\ tw' = pthread_mutex_lock(tw, new_slot, t)
                    /\ TWGoto(t, "tick_put")
                    /\ UNCHANGED <<timer, twlv>>
       \/ /\ twlv[t].head = <<>>
          /\ tw' = [tw EXCEPT !.current_tick = @ + 1]
          /\ twlv' = [twlv EXCEPT ![t] = [@ EXCEPT !.tick = @ + 1]]
          /\ TWGoto(t, "tick_loop")
          /\ UNCHANGED timer
    /\ UNCHANGED <<slots, twn, twfail>>
    /\ UNCHANGED <<shtVars, pqVars>>

\* list_add(&tw->slots[new_slot], timer);
\* pthread_mutex_unlock(&tw->lock[new_slot]); atomic_incr(tw->cpt_timer_loop)
timer_wheel_tick_put(t) ==
    /\ twpc[t] = "tick_put"
    /\ LET x == Head(twlv[t].head)
           new_slot == BitAnd(tw_expiry_tick(x), tw.mask)
       IN  /\ slots' = [slots EXCEPT ![new_slot] = list_add(@, x)]
           /\ tw' = tw_loop(pthread_mutex_unlock(tw, new_slot))
           /\ twlv' = [twlv EXCEPT ![t] = [@ EXCEPT !.head = list_remove(@)]]
    /\ TWGoto(t, "tick_scan")
    /\ UNCHANGED <<timer, twn, twfail>>
    /\ UNCHANGED <<shtVars, pqVars>>

NextTWLock ==
    \E t \in Threads :
        \/ timer_wheel_add(t)
        \/ timer_wheel_add_lock(t)
        \/ timer_wheel_add_locked(t)
        \/ timer_wheel_add_put(t)
        \/ timer_wheel_add_fire(t)
        \/ timer_wheel_tick_any(t)
        \/ timer_wheel_tick_lock(t)
        \/ timer_wheel_tick_detach(t)
        \/ timer_wheel_tick_scan(t)
        \/ timer_wheel_tick_put(t)
        \/ tw_return(t)

SpecTWLock == InitTWLock /\ [][NextTWLock]_vars

\* the same steps with one thread, thread 1, calling timer_wheel_tick
NextTWLockOne ==
    \E t \in Threads :
        \/ timer_wheel_add(t)
        \/ timer_wheel_add_lock(t)
        \/ timer_wheel_add_locked(t)
        \/ timer_wheel_add_put(t)
        \/ timer_wheel_add_fire(t)
        \/ timer_wheel_tick(t)
        \/ timer_wheel_tick_lock(t)
        \/ timer_wheel_tick_detach(t)
        \/ timer_wheel_tick_scan(t)
        \/ timer_wheel_tick_put(t)
        \/ tw_return(t)

SpecTWLockOne == InitTWLock /\ [][NextTWLockOne]_vars

\* the mutexes thread t holds
Held(t) == {s \in DOMAIN tw.lock : tw.lock[s] = t}

\* C35: a thread holds at most one mutex of a slot; it holds one only
\* between a lock and the unlock that follows, so that timer_wheel_tick
\* holds none while it walks the detached list and when it takes the mutex
\* of the slot a timer goes back to; and the step that calls the callback
\* is taken with no mutex held
C35_OneSlotMutexAtATime ==
    /\ [](\A t \in Threads :
             /\ Cardinality(Held(t)) <= 1
             /\ Held(t) # {} =>
                   twpc[t] \in {"add_cs", "add_put", "tick_cs", "tick_put"})
    /\ [][\A t \in Threads :
             /\ tw'.called # tw.called /\ twpc[t] \in {"add_fire", "tick_scan"}
                /\ twlv'[t] # twlv[t] => Held(t) = {} /\ Held(t)' = {}
             /\ Held(t)' # {} /\ Held(t) = {} =>
                   Cardinality(Held(t)') = 1]_vars

\* a tick holds the mutex of the slot it puts a timer back in while an add
\* holds the mutex of the other slot
C35_Witness ==
    \E t, u \in Threads :
        /\ t # u /\ twpc[t] = "tick_put" /\ twpc[u] = "add_cs"
        /\ Cardinality(Held(t)) = 1 /\ Cardinality(Held(u)) = 1

\* the timers in the slots of the wheel
Enqueued == UNION {Range(slots[s]) : s \in DOMAIN slots}

\* the ticking thread has taken the list of the slot of tick k and has not
\* gone on to the next tick
Swept(k) == twpc[1] \in {"tick_scan", "tick_put"} /\ twlv[1].tick = k

\* C40: with one ticking thread, a timer timer_wheel_add is about to put in
\* its slot, or has put there, has an expiry tick that current_tick has not
\* passed, and the ticking thread has not taken the list of that slot for
\* that tick; so when a call of timer_wheel_tick is over, no timer whose
\* expiry tick its target reached is left in the wheel
C40_EnqueuedBeforeItsSweep ==
    /\ \A x \in Enqueued :
            /\ tw_expiry_tick(x) >= tw.current_tick
            /\ ~Swept(tw_expiry_tick(x))
    /\ \A t \in Threads : twpc[t] = "add_put" =>
            /\ twlv[t].expiry_tick >= tw.current_tick
            /\ ~Swept(twlv[t].expiry_tick)
    /\ twpc[1] = "ret" /\ twlv[1].kind = "tick" /\ twlv[1].now >= twlv[1].from =>
            \A x \in Enqueued : tw_expiry_tick(x) > twlv[1].target_tick

\* current_tick has reached the expiry tick of a timer while timer_wheel_add
\* holds the mutex of its slot, about to put it there, and the ticking
\* thread waits for that mutex
C40_Witness ==
    \E t \in Threads :
        /\ t # 1 /\ twpc[t] = "add_put"
        /\ twlv[t].expiry_tick = tw.current_tick
        /\ twpc[1] = "tick_loop" /\ twlv[1].tick = twlv[t].expiry_tick
        /\ tw_in_loop(twlv[1].tick, twlv[1].target_tick)
====
